---- MODULE Spec2Model ----
(***************************************************************************)
(* Movie identity resolution and enrichment (src/enrichment/tmdb.py) and   *)
(* the Movie record (src/models.py), as a state machine.                   *)
(*                                                                         *)
(* Python values are tagged tuples: None is <<"none">>, a value v is       *)
(* <<"val", v>>.  A JSON object is a record whose fields are Absent (the   *)
(* key is not in the dict), None (JSON null) or Val(v).  Strings that the  *)
(* code slices, lower-cases or parses are sequences of one-character       *)
(* strings, so that s[:4], s.lower() and int(s) are computed.              *)
(***************************************************************************)
EXTENDS Integers, Sequences, FiniteSets, TLC

None == <<"none">>
Absent == <<"absent">>
Val(v) == <<"val", v>>
IsVal(x) == x[1] = "val"

\* dict.get(key): None when the key is absent
Get(f) == IF f = Absent THEN None ELSE f
\* dict.get(key, default)
GetDefault(f, d) == IF f = Absent THEN d ELSE f

\* bool(x) of an Optional[int], of an Optional[str] held as a string, and of
\* an Optional[str] held as a sequence of characters
TruthyInt(x) == IsVal(x) /\ x[2] # 0
TruthyStr(x) == IsVal(x) /\ x[2] # ""
TruthyText(x) == IsVal(x) /\ x[2] # <<>>

(***************************************************************************)
(* str.lower(), s[:4] and int(s)                                           *)
(***************************************************************************)
UpperChars == <<"A","B","C","D","E","F","G","H","I","J","K","L","M",
                "N","O","P","Q","R","S","T","U","V","W","X","Y","Z">>
LowerChars == <<"a","b","c","d","e","f","g","h","i","j","k","l","m",
                "n","o","p","q","r","s","t","u","v","w","x","y","z">>
Digits == <<"0","1","2","3","4","5","6","7","8","9">>

LowerChar(c) ==
    IF \E i \in DOMAIN UpperChars : UpperChars[i] = c
    THEN LowerChars[CHOOSE i \in DOMAIN UpperChars : UpperChars[i] = c]
    ELSE c
Lower(s) == [i \in DOMAIN s |-> LowerChar(s[i])]

\* s[:4]
Prefix4(s) == SubSeq(s, 1, IF Len(s) < 4 THEN Len(s) ELSE 4)

IsDigit(c) == \E i \in DOMAIN Digits : Digits[i] = c
DigitVal(c) == (CHOOSE i \in DOMAIN Digits : Digits[i] = c) - 1

\* s.strip() on the blanks of s
RECURSIVE LStrip(_)
LStrip(s) == IF s # <<>> /\ Head(s) = " " THEN LStrip(Tail(s)) ELSE s
RECURSIVE RStrip(_)
RStrip(s) ==
    IF s # <<>> /\ s[Len(s)] = " " THEN RStrip(SubSeq(s, 1, Len(s) - 1)) ELSE s

\* the digits of an int literal: digits, single underscores only between digits
IntBody(s) ==
    /\ s # <<>>
    /\ \A i \in DOMAIN s : IsDigit(s[i]) \/ s[i] = "_"
    /\ IsDigit(s[1]) /\ IsDigit(s[Len(s)])
    /\ \A i \in 1..(Len(s) - 1) : ~(s[i] = "_" /\ s[i + 1] = "_")
RECURSIVE IntValue(_)
IntValue(s) ==
    IF s = <<>> THEN 0
    ELSE IF s[Len(s)] = "_" THEN IntValue(SubSeq(s, 1, Len(s) - 1))
    ELSE 10 * IntValue(SubSeq(s, 1, Len(s) - 1)) + DigitVal(s[Len(s)])

\* int(s) of a str: None stands for ValueError, which every caller catches
ParseInt(s) ==
    LET t == RStrip(LStrip(s))
        signed == t # <<>> /\ (t[1] = "-" \/ t[1] = "+")
        body == IF signed THEN Tail(t) ELSE t
    IN  IF ~IntBody(body) THEN None
        ELSE IF signed /\ t[1] = "-" THEN Val(0 - IntValue(body))
        ELSE Val(IntValue(body))

\* the try block of lines 112-115, 126-129, 153-156, 194-198: the year parsed
\* from a truthy release_date, None when the date is falsy or int() raises
ParseYear(release_date) ==
    IF ~TruthyText(Get(release_date)) THEN None
    ELSE ParseInt(Prefix4(release_date[2]))


(***************************************************************************)
(* Exceptions: an operation that can raise yields Raise(type) in place of  *)
(* its value.                                                              *)
(***************************************************************************)
Raise(e) == <<"raise", e>>
Raised(x) == x[1] = "raise"

\* a dict is truthy when it has a key; the records below hold every key the
\* code reads, so the empty dict is the record with every field Absent
DictTruthy(d) == IsVal(d) /\ \E k \in DOMAIN d[2] : d[2][k] # Absent

(***************************************************************************)
(* TMDBClient._find_best_match                                             *)
(***************************************************************************)
\* lines 202 and 206: result_title == title_lower or
\* result_original_title == title_lower
TitleMatches(result_title, result_original_title, title_lower) ==
    result_title = title_lower \/ result_original_title = title_lower

\* the first loop, lines 189-207, from index i on: the hit it returns, a
\* raise (None.lower() when a title is null), or None when the loop ends
RECURSIVE TitleLoop(_, _, _, _)
TitleLoop(results, i, title_lower, year) ==
    IF i > Len(results) THEN None
    ELSE
      LET result == results[i]
          t == GetDefault(result.title, Val(<<>>))
          o == GetDefault(result.original_title, Val(<<>>))
      IN  IF t = None \/ o = None THEN Raise("AttributeError")
          ELSE
            LET result_title == Lower(t[2])
                result_original_title == Lower(o[2])
                result_year == ParseYear(result.release_date)
            IN  IF /\ TruthyInt(year) /\ TruthyInt(result_year)
                   /\ TitleMatches(result_title, result_original_title, title_lower)
                   /\ result_year = year
                THEN Val(result)
                ELSE IF TitleMatches(result_title, result_original_title, title_lower)
                THEN Val(result)
                ELSE TitleLoop(results, i + 1, title_lower, year)

\* the second loop taking a date that does not parse for a match
RECURSIVE YearLoopUnparsed(_, _, _)
YearLoopUnparsed(results, i, year) ==
    IF i > Len(results) THEN None
    ELSE IF ParseYear(results[i].release_date) \in {year, None} THEN Val(results[i])
    ELSE YearLoopUnparsed(results, i + 1, year)

\* the second loop, lines 211-218: the first hit whose parsed year is year
RECURSIVE YearLoop(_, _, _)
YearLoop(results, i, year) ==
    IF i > Len(results) THEN None
    ELSE IF ParseYear(results[i].release_date) = year THEN Val(results[i])
    ELSE YearLoop(results, i + 1, year)

\* the year loop of lines 210-218 ahead of the title loop
_find_best_match_year_first(results, title, year) ==
    IF results = <<>> THEN None
    ELSE
      LET second == IF TruthyInt(year) THEN YearLoop(results, 1, year) ELSE None
      IN  IF second # None THEN second
          ELSE
            LET first == TitleLoop(results, 1, Lower(title), year)
            IN  IF first # None THEN first ELSE Val(results[1])

\* without the fallback of line 221
_find_best_match_no_fallback(results, title, year) ==
    IF results = <<>> THEN None
    ELSE
      LET first == TitleLoop(results, 1, Lower(title), year)
      IN  IF first # None THEN first
          ELSE IF TruthyInt(year) THEN YearLoop(results, 1, year) ELSE None

_find_best_match(results, title, year) ==
    IF results = <<>> THEN None
    ELSE
      LET first == TitleLoop(results, 1, Lower(title), year)
      IN  IF first # None THEN first
          ELSE
            LET second == IF TruthyInt(year) THEN YearLoop(results, 1, year) ELSE None
            IN  IF second # None THEN second ELSE Val(results[1])


(***************************************************************************)
(* Bounded inputs and catalog answers                                      *)
(***************************************************************************)
MaxCrew == 2
MaxHits == 2
MaxThreads == 2
MaxGets == 2
MaxNow == 6
MaxTenths == 100
MaxCalls == 2
MaxWatched == 1
MaxWatchlist == 1
MaxFaults == 1

\* the calls of SyncService.sync, each on a thread of its own
Calls == 1..MaxCalls
\* table sync_status after create_all: the column defaults
SyncStatusDefault ==
    [ status |-> "idle", error_message |-> None, last_sync |-> None,
      movies_count |-> 0, watchlist_count |-> 0 ]
\* no upsert_movie yet
NoUpsert == [n |-> 0, op |-> "none", data |-> None]

\* line 18, in clock ticks of 125 ms
RATE_LIMIT_DELAY == 2
\* the threads that call one TMDBClient
Threads == 1..MaxThreads

TUp == <<"U", "p">>
TUPPER == <<"U", "P">>
TIt == <<"I", "t">>
D1999 == <<"1", "9", "9", "9", "-", "0", "3", "-", "3", "1">>
D2010 == <<"2", "0", "1", "0", "-", "0", "7", "-", "1", "5">>
DBad == <<"T", "B", "A">>

SeqsUpTo(S, n) == UNION {[1..k -> S] : k \in 0..n}

\* the Movie records handed to enrich_movie
InputTitles == {TUp}
InputYears == {None, Val(2010)}
InputTmdbIds == {None, Val(1)}
InputImdbIds == {None, Val("tt1")}
InputDirectors == {<<>>, <<Val("Zed")>>}

\* crew entries of a details response; a Director entry may lack its name
CrewEntries ==
    { [job |-> Val("Director"), name |-> Val("Ann")],
      [job |-> Val("Director"), name |-> Val("Bob")],
      [job |-> Val("Writer"), name |-> Val("Cy")],
      [job |-> Val("Director"), name |-> Absent] }
CreditsAnswers ==
    {Absent, None}
    \cup {Val([crew |-> c]) : c \in {Absent, None}}
    \cup {Val([crew |-> Val(l)]) : l \in SeqsUpTo(CrewEntries, MaxCrew)}
ExternalIdsObjects ==
    {Val([imdb_id |-> Absent]), Val([imdb_id |-> Val("tt2")])}
\* what get_external_ids returns: None or the decoded JSON object
ExternalIdsAnswers == {None} \cup ExternalIdsObjects
ReleaseDates == {Absent, Val(D1999), Val(DBad)}

\* what get_movie_details returns: None (a transport failure or a 404,
\* lines 45-47) or the decoded JSON object
DetailsAnswers ==
    {None}
    \cup { Val([external_ids |-> x, credits |-> c, release_date |-> d]) :
             x \in {Absent, None} \cup ExternalIdsObjects,
             c \in CreditsAnswers, d \in ReleaseDates }

\* search hits; the last one is the empty object
SearchHits ==
    { [id |-> Val(1), title |-> Val(TUPPER), original_title |-> Absent,
       release_date |-> Val(D1999)],
      [id |-> Val(2), title |-> Val(TIt), original_title |-> Absent,
       release_date |-> Absent],
      [id |-> Val(2), title |-> Val(TIt), original_title |-> Val(TUp),
       release_date |-> Val(D2010)],
      [id |-> Absent, title |-> Val(TUp), original_title |-> Absent,
       release_date |-> Val(D1999)],
      [id |-> Val(1), title |-> Val(TIt), original_title |-> Absent,
       release_date |-> Val(DBad)],
      [id |-> Absent, title |-> Absent, original_title |-> Absent,
       release_date |-> Absent] }
\* what find_by_imdb_id returns: movie_results[0] or None (lines 62-64)
FindAnswers == {None} \cup {Val(h) : h \in SearchHits}
\* what search_movie returns: the results list, [] on failure (lines 73-75)
SearchAnswers == SeqsUpTo(SearchHits, MaxHits)


(***************************************************************************)
(* State.  Movie objects and list objects live in two heaps (sequences     *)
(* indexed by address), so that aliasing between the argument of           *)
(* enrich_movie and its result is a fact of the state.                     *)
(***************************************************************************)
VARIABLES
    objs,           \* heap of Movie objects; directors holds a list address
    lists,          \* heap of list objects
    movie,          \* address of the argument of enrich_movie
    enriched,       \* address of the local `enriched`, 0 before line 86
    orig,           \* the argument's fields and directors at call time
    pc,             \* the line enrich_movie is at
    outcome,        \* "running", "returned" or the exception that left the call
    calls,          \* the catalog requests of this call, in order
    response,       \* what the last catalog request returned
    result,         \* the local `result` of strategy 2 (line 122)
    best_match,     \* the local `best_match` of strategy 3 (line 149)
    external_ids,   \* the local `external_ids` of strategy 3 (line 160)
    warned,         \* the warning of line 176 was logged
    deterministic,  \* the catalog answers a repeated request as before
    cat,            \* the answers a deterministic catalog has given
    pass,           \* 1 for enrich_movie(r), 2 for enrich_movie(enrich_movie(r))
    first,          \* the record the first pass returned
    sel_results,    \* _find_best_match called alone: its results argument
    sel_title,      \* its title argument
    sel_year,       \* its year argument
    sel_pc,         \* "call" before it runs, "done" after, "again" after a
                    \* second call with the same arguments
    sel_return,     \* what it returned, or the exception it raised
    sel_again,      \* what the second call returned or raised
    now,            \* time.time(), in ticks
    _last_request_time,  \* the attribute of the shared TMDBClient
    rl_pc,          \* per thread: the line of _get and _rate_limit it is at
    elapsed,        \* per thread: the local `elapsed` of line 27
    wake,           \* per thread: when its time.sleep of line 29 is over
    gets,           \* per thread: the calls of _get it has yet to make
    sent,           \* the times _rate_limit let a request through, in order
    eq_self,        \* a == b and hash(a), hash(b): the object a
    eq_other,       \* the object b
    eq_pc,          \* "call", "compared" after a == b, "hashed" after the hashes
    eq_result,      \* what a == b gave
    hash_self,      \* hash(a)
    hash_other,     \* hash(b)
    rt_a,           \* convert_rating_10_to_5 on two ratings: the first rating
    rt_b,           \* the second rating
    rt_pc,          \* "call" before the two calls, "done" after
    rt_ra,          \* what the call on the first rating returned
    rt_rb,          \* what the call on the second rating returned
    tr_a,           \* three Movie objects compared with ==: a
    tr_b,           \* b
    tr_c,           \* c
    tr_pc,          \* "call" before the comparisons, "compared" after
    tr_eq,          \* the results of a == a, a == b, b == a, b == c and a == c
    ex_kind,        \* export_watched or export_watchlist: which of the two
    ex_entries,     \* entries
    ex_i,           \* the position of the loop of lines 59-63 in entries
    ex_valid,       \* valid_entries
    ex_not_found,   \* not_found
    ex_main,        \* the main CSV file: Absent, or its header and rows
    ex_report,      \* the not-found CSV file: Absent, or its header and rows
    ex_pc,          \* "loop", "write", "report", "done"
    _is_syncing,    \* SyncService._is_syncing
    on_sync_complete,\* SyncService.on_sync_complete: None or a callback
    src_watched,    \* what source.get_watched() returns, each movie as enrich_movie leaves it
    src_watchlist,  \* what source.get_watchlist() returns, likewise
    db_movies,      \* the rows of table movies, in insertion order
    db_status,      \* the row of table sync_status
    db_last,        \* the last upsert_movie: its number, what it attempted, its data
    callbacks,      \* the calls of sync() that invoked on_sync_complete
    faults,         \* how many database writes of update_sync_status have failed
    sy_pc,          \* per call of sync(): the line it is at, "ready" before, "returned" after
    sy_i,           \* per call: the position of the loop of line 104 or line 135
    sy_result,      \* per call: status of the result returned, "raised" when it raised
    sy_conn,        \* per call: what test_connection() answered
    sy_error,       \* per call: str(e) of the exception caught at line 182
    sy_did,         \* per call: what it has done of fetch, catalog, upsert, callback
    sy_keys         \* per call: the columns of sync_status it has written

enrichVars == <<objs, lists, movie, enriched, orig, pc, outcome, calls, response,
                result, best_match, external_ids, warned, deterministic, cat,
                pass, first>>
selVars == <<sel_results, sel_title, sel_year, sel_pc, sel_return, sel_again>>
rateVars == <<now, _last_request_time, rl_pc, elapsed, wake, gets, sent>>
eqVars == <<eq_self, eq_other, eq_pc, eq_result, hash_self, hash_other>>
ratingVars == <<rt_a, rt_b, rt_pc, rt_ra, rt_rb>>
tripleVars == <<tr_a, tr_b, tr_c, tr_pc, tr_eq>>
exportVars == <<ex_kind, ex_entries, ex_i, ex_valid, ex_not_found, ex_main,
    ex_report, ex_pc>>
syncVars == <<_is_syncing, on_sync_complete, src_watched, src_watchlist,
    db_movies, db_status, db_last, callbacks, faults, sy_pc, sy_i, sy_result,
    sy_conn, sy_error, sy_did, sy_keys>>
\* the variables of the models.py utility, the exporter and the web service
laterVars == <<ratingVars, tripleVars, exportVars, syncVars>>
vars == <<enrichVars, selVars, rateVars, eqVars, laterVars>>

\* the variables enrich_movie leaves alone
notEnrich == <<selVars, rateVars, eqVars, laterVars>>
\* the variables a lone _find_best_match leaves alone
notSel == <<enrichVars, rateVars, eqVars, laterVars>>
\* the variables the threads in _get leave alone
notRate == <<enrichVars, selVars, eqVars, laterVars>>
\* the variables a comparison of two objects leaves alone
notEq == <<enrichVars, selVars, rateVars, laterVars>>
\* the variables of the resolver
coreVars == <<enrichVars, selVars, rateVars, eqVars>>
\* the variables a rating conversion leaves alone
notRating == <<coreVars, tripleVars, exportVars, syncVars>>
\* the variables the comparisons of three objects leave alone
notTriple == <<coreVars, ratingVars, exportVars, syncVars>>
\* the variables an export leaves alone
notExport == <<coreVars, ratingVars, tripleVars, syncVars>>
\* the variables the sync service leaves alone
notSync == <<coreVars, ratingVars, tripleVars, exportVars>>

\* a Movie object by value: its fields, and the elements of its directors list
Rec(o) ==
    [ title |-> objs[o].title, year |-> objs[o].year,
      tmdb_id |-> objs[o].tmdb_id, imdb_id |-> objs[o].imdb_id,
      directors |-> lists[objs[o].directors] ]

NoAnswers ==
    [ get_movie_details |-> <<>>, get_external_ids |-> <<>>,
      find_by_imdb_id |-> <<>>, search_movie |-> <<>> ]

InitCall(det) ==
    /\ \E t \in InputTitles, y \in InputYears, i \in InputTmdbIds,
          j \in InputImdbIds, d \in InputDirectors :
         /\ objs = << [title |-> t, year |-> y, tmdb_id |-> i, imdb_id |-> j,
                       directors |-> 1] >>
         /\ lists = <<d>>
    /\ movie = 1
    /\ enriched = 0
    /\ orig = Rec(1)
    /\ pc = "L86"
    /\ outcome = "running"
    /\ calls = <<>>
    /\ response = None
    /\ result = None
    /\ best_match = None
    /\ external_ids = None
    /\ warned = FALSE
    /\ deterministic = det
    /\ cat = NoAnswers
    /\ pass = 1
    /\ first = None

\* no lone call of _find_best_match
NoSelect ==
    /\ sel_results = <<>>
    /\ sel_title = <<>>
    /\ sel_year = None
    /\ sel_pc = "done"
    /\ sel_return = None
    /\ sel_again = None

\* no thread in _get
NoRate ==
    /\ now = 0
    /\ _last_request_time = 0
    /\ rl_pc = [t \in Threads |-> "idle"]
    /\ elapsed = [t \in Threads |-> 0]
    /\ wake = [t \in Threads |-> 0]
    /\ gets = [t \in Threads |-> 0]
    /\ sent = <<>>

\* no comparison
NoEq ==
    /\ eq_self = None
    /\ eq_other = None
    /\ eq_pc = "hashed"
    /\ eq_result = FALSE
    /\ hash_self = None
    /\ hash_other = None

\* no rating conversion
NoRating ==
    /\ rt_a = None
    /\ rt_b = None
    /\ rt_pc = "done"
    /\ rt_ra = None
    /\ rt_rb = None

\* no three objects compared
NoTriple ==
    /\ tr_a = None
    /\ tr_b = None
    /\ tr_c = None
    /\ tr_pc = "compared"
    /\ tr_eq = None

\* no export
NoExport ==
    /\ ex_kind = "watched"
    /\ ex_entries = <<>>
    /\ ex_i = 1
    /\ ex_valid = <<>>
    /\ ex_not_found = <<>>
    /\ ex_main = Absent
    /\ ex_report = Absent
    /\ ex_pc = "done"

\* no sync service
NoSync ==
    /\ _is_syncing = FALSE
    /\ on_sync_complete = None
    /\ src_watched = <<>>
    /\ src_watchlist = <<>>
    /\ db_movies = <<>>
    /\ db_status = SyncStatusDefault
    /\ db_last = NoUpsert
    /\ callbacks = <<>>
    /\ faults = 0
    /\ sy_pc = [c \in Calls |-> "returned"]
    /\ sy_i = [c \in Calls |-> 1]
    /\ sy_result = [c \in Calls |-> ""]
    /\ sy_conn = [c \in Calls |-> "untested"]
    /\ sy_error = [c \in Calls |-> ""]
    /\ sy_did = [c \in Calls |-> {}]
    /\ sy_keys = [c \in Calls |-> {}]

\* nothing but g, of the utility, the exporter and the web service
NoLaterBut(g) ==
    /\ IF g = "rating" THEN TRUE ELSE NoRating
    /\ IF g = "triple" THEN TRUE ELSE NoTriple
    /\ IF g = "export" THEN TRUE ELSE NoExport
    /\ IF g = "sync" THEN TRUE ELSE NoSync
NoLater == NoLaterBut("")

Init == InitCall(FALSE) /\ NoSelect /\ NoRate /\ NoEq /\ NoLater

(***************************************************************************)
(* The catalog: TMDBClient._get and the four operations on it              *)
(***************************************************************************)
\* the answers the catalog may give to a request
AnswersTo(op, arg, domain) ==
    IF deterministic /\ arg \in DOMAIN cat[op] THEN {cat[op][arg]} ELSE domain

\* a request sent a second time after its answer
RequestTwice(op, arg, answer) ==
    /\ calls' = calls \o << [op |-> op, arg |-> arg], [op |-> op, arg |-> arg] >>
    /\ response' = answer
    /\ cat' = IF deterministic
              THEN [cat EXCEPT ![op] = (arg :> answer) @@ @]
              ELSE cat

\* one request: it is appended to the requests of the call
Request(op, arg, answer) ==
    /\ calls' = Append(calls, [op |-> op, arg |-> arg])
    /\ response' = answer
    /\ cat' = IF deterministic
              THEN [cat EXCEPT ![op] = (arg :> answer) @@ @]
              ELSE cat


(***************************************************************************)
(* TMDBClient.enrich_movie                                                 *)
(*                                                                         *)
(* The body of a strategy works on st = [e, ls, exc]: the fields of        *)
(* `enriched`, the list heap, and the exception raised so far ("" for      *)
(* none); a statement after a raise has no effect.                         *)
(***************************************************************************)
\* line 91 without .copy(): the argument's own list
ShareList(ls, a) == [ls |-> ls, addr |-> a]

\* movie.directors.copy(), line 91: a new list with the same elements
CopyList(ls, a) == [ls |-> Append(ls, ls[a]), addr |-> Len(ls) + 1]

\* Movie(title=..., directors=movie.directors.copy()), lines 86-92
NewMovie(os, ls, m) ==
    LET c == CopyList(ls, os[m].directors)
    IN  [ os |-> Append(os, [os[m] EXCEPT !.directors = c.addr]),
          ls |-> c.ls,
          addr |-> Len(os) + 1 ]

\* the comprehension without its filter on the job
RECURSIVE AllCrewNames(_)
AllCrewNames(crew) ==
    IF crew = <<>> THEN Val(<<>>)
    ELSE IF Head(crew).name = Absent THEN Raise("KeyError")
    ELSE LET rest == AllCrewNames(Tail(crew))
         IN  IF Raised(rest) THEN rest ELSE Val(<<Head(crew).name>> \o rest[2])

\* [p["name"] for p in crew if p.get("job") == "Director"]
RECURSIVE DirectorNames(_)
DirectorNames(crew) ==
    IF crew = <<>> THEN Val(<<>>)
    ELSE
      LET p == Head(crew)
      IN  IF Get(p.job) = Val("Director")
          THEN IF p.name = Absent THEN Raise("KeyError")
               ELSE LET rest == DirectorNames(Tail(crew))
                    IN  IF Raised(rest) THEN rest
                        ELSE Val(<<p.name>> \o rest[2])
          ELSE DirectorNames(Tail(crew))

\* lines 98-100
FillImdbId(st, details) ==
    LET ext == GetDefault(details.external_ids, Val([imdb_id |-> Absent]))
    IN  IF st.exc # "" \/ TruthyStr(st.e.imdb_id) THEN st
        ELSE IF ext = None THEN [st EXCEPT !.exc = "AttributeError"]
        ELSE IF TruthyStr(Get(ext[2].imdb_id))
        THEN [st EXCEPT !.e.imdb_id = Get(ext[2].imdb_id)]
        ELSE st

\* lines 103-108, 135-140 and 166-171
FillDirectors(st, details) ==
    LET credits == GetDefault(details.credits, Val([crew |-> Absent]))
        crew == GetDefault(credits[2].crew, Val(<<>>))
        names == DirectorNames(crew[2])
    IN  IF st.exc # "" \/ st.ls[st.e.directors] # <<>> THEN st
        ELSE IF credits = None THEN [st EXCEPT !.exc = "AttributeError"]
        ELSE IF crew = None THEN [st EXCEPT !.exc = "TypeError"]
        ELSE IF Raised(names) THEN [st EXCEPT !.exc = names[2]]
        ELSE [st EXCEPT !.ls = Append(@, names[2]),
                        !.e.directors = Len(st.ls) + 1]

\* FillYear without the test `not enriched.year`
FillYearAlways(st, obj) ==
    IF st.exc = "" /\ ParseYear(obj.release_date) # None
    THEN [st EXCEPT !.e.year = ParseYear(obj.release_date)]
    ELSE st

\* lines 111-115, 125-129 and 152-156
FillYear(st, obj) ==
    IF st.exc = "" /\ ~TruthyInt(st.e.year) /\ ParseYear(obj.release_date) # None
    THEN [st EXCEPT !.e.year = ParseYear(obj.release_date)]
    ELSE st

\* lines 124 and 151 reading a key the hit does not have
SetTmdbIdWrongKey(st, hit) == [st EXCEPT !.e.tmdb_id = None]

\* lines 124 and 151: enriched.tmdb_id = hit.get("id")
SetTmdbId(st, hit) == [st EXCEPT !.e.tmdb_id = Get(hit.id)]

\* lines 161-162 reading a key the answer does not have
SetImdbIdWrongKey(st, ext) == st

\* lines 161-162
SetImdbId(st, ext) ==
    IF DictTruthy(ext) /\ TruthyStr(Get(ext[2].imdb_id))
    THEN [st EXCEPT !.e.imdb_id = Get(ext[2].imdb_id)]
    ELSE st

\* line 95 skipping the lookup for a record that holds both ids
Strategy1AppliesNoImdb(e) == TruthyInt(e.tmdb_id) /\ ~TruthyStr(e.imdb_id)

\* line 95: if enriched.tmdb_id
Strategy1Applies(e) == TruthyInt(e.tmdb_id)
\* line 121 without `and not enriched.tmdb_id`
Strategy2AppliesAnyTmdb(e) == TruthyStr(e.imdb_id)

\* line 121: if enriched.imdb_id and not enriched.tmdb_id
Strategy2Applies(e) == TruthyStr(e.imdb_id) /\ ~TruthyInt(e.tmdb_id)
\* line 144 without `and not enriched.imdb_id`: search as the fallback
Strategy3AppliesAnyImdb(e) == ~TruthyInt(e.tmdb_id)

\* line 144: if not enriched.tmdb_id and not enriched.imdb_id
Strategy3Applies(e) == ~TruthyInt(e.tmdb_id) /\ ~TruthyStr(e.imdb_id)

Start == [e |-> objs[enriched], ls |-> lists, exc |-> ""]

\* the statements of a strategy have run: the heaps hold their effect, and the
\* call goes on at line next, returns (next = "return") or is left by st.exc
Finish(st, next) ==
    /\ objs' = [objs EXCEPT ![enriched] = st.e]
    /\ lists' = st.ls
    /\ pc' = IF st.exc # "" \/ next = "return" THEN "done" ELSE next
    /\ outcome' = IF st.exc # "" THEN st.exc
                  ELSE IF next = "return" THEN "returned" ELSE outcome

\* lines 86-92
Call ==
    /\ pc = "L86"
    /\ LET n == NewMovie(objs, lists, movie)
       IN  objs' = n.os /\ lists' = n.ls /\ enriched' = n.addr
    /\ orig' = Rec(movie)
    /\ pc' = "L95"
    /\ UNCHANGED <<movie, outcome, calls, response, result, best_match,
                   external_ids, warned, deterministic, cat, pass, first>>
    /\ UNCHANGED notEnrich

\* lines 95-118: strategy 1
Strategy1 ==
    /\ pc = "L95"
    /\ Strategy1Applies(objs[enriched])
    /\ \E details \in AnswersTo("get_movie_details", <<objs[enriched].tmdb_id>>,
                                DetailsAnswers) :
         /\ Request("get_movie_details", <<objs[enriched].tmdb_id>>, details)
         /\ IF DictTruthy(details)
            THEN Finish(FillYear(FillDirectors(FillImdbId(Start, details[2]),
                                               details[2]), details[2]), "return")
            ELSE Finish(Start, "L121")
    /\ UNCHANGED <<movie, enriched, orig, result, best_match, external_ids,
                   warned, deterministic, pass, first>>
    /\ UNCHANGED notEnrich

\* line 95 is false
Skip1 ==
    /\ pc = "L95"
    /\ ~Strategy1Applies(objs[enriched])
    /\ pc' = "L121"
    /\ UNCHANGED <<objs, lists, movie, enriched, orig, outcome, calls, response,
                   result, best_match, external_ids, warned, deterministic, cat,
                   pass, first>>
    /\ UNCHANGED notEnrich

\* lines 121-133 and 141: strategy 2, find_by_imdb_id
Strategy2Find ==
    /\ pc = "L121"
    /\ Strategy2Applies(objs[enriched])
    /\ \E hit \in AnswersTo("find_by_imdb_id", <<objs[enriched].imdb_id>>,
                            FindAnswers) :
         /\ Request("find_by_imdb_id", <<objs[enriched].imdb_id>>, hit)
         /\ result' = hit
         /\ IF DictTruthy(hit)
            THEN LET st == FillYear(SetTmdbId(Start, hit[2]), hit[2])
                 IN  Finish(st, IF TruthyInt(st.e.tmdb_id) THEN "L134" ELSE "return")
            ELSE Finish(Start, "L144")
    /\ UNCHANGED <<movie, enriched, orig, best_match, external_ids, warned,
                   deterministic, pass, first>>
    /\ UNCHANGED notEnrich

\* lines 134-141: strategy 2, get_movie_details
Strategy2Details ==
    /\ pc = "L134"
    /\ \E details \in AnswersTo("get_movie_details", <<objs[enriched].tmdb_id>>,
                                DetailsAnswers) :
         /\ Request("get_movie_details", <<objs[enriched].tmdb_id>>, details)
         /\ IF DictTruthy(details)
            THEN Finish(FillDirectors(Start, details[2]), "return")
            ELSE Finish(Start, "return")
    /\ UNCHANGED <<movie, enriched, orig, result, best_match, external_ids,
                   warned, deterministic, pass, first>>
    /\ UNCHANGED notEnrich

\* line 121 is false
Skip2 ==
    /\ pc = "L121"
    /\ ~Strategy2Applies(objs[enriched])
    /\ pc' = "L144"
    /\ UNCHANGED <<objs, lists, movie, enriched, orig, outcome, calls, response,
                   result, best_match, external_ids, warned, deterministic, cat,
                   pass, first>>
    /\ UNCHANGED notEnrich


\* lines 144-157 and 173-176: strategy 3, search_movie and _find_best_match
Strategy3Search ==
    /\ pc = "L144"
    /\ Strategy3Applies(objs[enriched])
    /\ \E results \in AnswersTo("search_movie",
                                <<Val(objs[enriched].title), objs[enriched].year>>,
                                SearchAnswers) :
         LET chosen == _find_best_match(results, objs[enriched].title,
                                        objs[enriched].year)
         IN  /\ Request("search_movie",
                        <<Val(objs[enriched].title), objs[enriched].year>>, results)
             /\ IF results = <<>>
                THEN /\ Finish(Start, "L178")
                     /\ warned' = TRUE
                     /\ UNCHANGED best_match
                ELSE IF Raised(chosen)
                THEN /\ Finish([Start EXCEPT !.exc = chosen[2]], "return")
                     /\ UNCHANGED <<best_match, warned>>
                ELSE IF DictTruthy(chosen)
                THEN LET st == FillYear(SetTmdbId(Start, chosen[2]), chosen[2])
                     IN  /\ Finish(st, IF TruthyInt(st.e.tmdb_id)
                                       THEN "L160" ELSE "return")
                         /\ best_match' = chosen
                         /\ UNCHANGED warned
                ELSE /\ Finish(Start, "L178")
                     /\ best_match' = chosen
                     /\ warned' = TRUE
    /\ UNCHANGED <<movie, enriched, orig, result, external_ids, deterministic,
                   pass, first>>
    /\ UNCHANGED notEnrich

\* lines 160-162: strategy 3, get_external_ids
Strategy3ExternalIds ==
    /\ pc = "L160"
    /\ \E ext \in AnswersTo("get_external_ids", <<objs[enriched].tmdb_id>>,
                            ExternalIdsAnswers) :
         /\ Request("get_external_ids", <<objs[enriched].tmdb_id>>, ext)
         /\ external_ids' = ext
         /\ Finish(SetImdbId(Start, ext), "L165")
    /\ UNCHANGED <<movie, enriched, orig, result, best_match, warned,
                   deterministic, pass, first>>
    /\ UNCHANGED notEnrich

\* lines 165-174: strategy 3, get_movie_details
Strategy3Details ==
    /\ pc = "L165"
    /\ \E details \in AnswersTo("get_movie_details", <<objs[enriched].tmdb_id>>,
                                DetailsAnswers) :
         /\ Request("get_movie_details", <<objs[enriched].tmdb_id>>, details)
         /\ IF DictTruthy(details)
            THEN Finish(FillDirectors(Start, details[2]), "return")
            ELSE Finish(Start, "return")
    /\ UNCHANGED <<movie, enriched, orig, result, best_match, external_ids,
                   warned, deterministic, pass, first>>
    /\ UNCHANGED notEnrich

\* line 144 is false
Skip3 ==
    /\ pc = "L144"
    /\ ~Strategy3Applies(objs[enriched])
    /\ pc' = "L178"
    /\ UNCHANGED <<objs, lists, movie, enriched, orig, outcome, calls, response,
                   result, best_match, external_ids, warned, deterministic, cat,
                   pass, first>>
    /\ UNCHANGED notEnrich

\* line 178
Return ==
    /\ pc = "L178"
    /\ pc' = "done"
    /\ outcome' = "returned"
    /\ UNCHANGED <<objs, lists, movie, enriched, orig, calls, response, result,
                   best_match, external_ids, warned, deterministic, cat, pass,
                   first>>
    /\ UNCHANGED notEnrich

\* enrich_movie(enrich_movie(r)): the record returned is the next argument
Again ==
    /\ pc = "done" /\ outcome = "returned" /\ pass = 1
    /\ pass' = 2
    /\ first' = Val(Rec(enriched))
    /\ movie' = enriched
    /\ enriched' = 0
    /\ orig' = Rec(enriched)
    /\ pc' = "L86"
    /\ outcome' = "running"
    /\ calls' = <<>>
    /\ response' = None
    /\ result' = None
    /\ best_match' = None
    /\ external_ids' = None
    /\ warned' = FALSE
    /\ UNCHANGED <<objs, lists, deterministic, cat>>
    /\ UNCHANGED notEnrich

Next ==
    \/ Call
    \/ Strategy1
    \/ Skip1
    \/ Strategy2Find
    \/ Strategy2Details
    \/ Skip2
    \/ Strategy3Search
    \/ Strategy3ExternalIds
    \/ Strategy3Details
    \/ Skip3
    \/ Return

\* one call of enrich_movie, any catalog
Spec == Init /\ [][Next]_vars

\* two calls in a row against a deterministic catalog
InitTwice == InitCall(TRUE) /\ NoSelect /\ NoRate /\ NoEq /\ NoLater
NextTwice == Next \/ Again
SpecTwice == InitTwice /\ [][NextTwice]_vars


(***************************************************************************)
(* _find_best_match called alone, on every hit list up to MaxHits          *)
(***************************************************************************)
\* hits as the selector reads them: a title may be null, a release date may
\* be absent or unparsable; the id tells two hits of the same content apart
SelectHits ==
    { [id |-> Val(i), title |-> t, original_title |-> o, release_date |-> d] :
        i \in {1, 2}, t \in {Val(TUPPER), Val(TIt), None},
        o \in {Absent, Val(TUp)}, d \in {Absent, Val(D1999), Val(D2010), Val(DBad)} }
SelectTitles == {TUp}
SelectYears == {None, Val(1999), Val(2010)}

\* no call of enrich_movie
NoEnrich ==
    /\ objs = <<>>
    /\ lists = <<>>
    /\ movie = 0
    /\ enriched = 0
    /\ orig = None
    /\ pc = "done"
    /\ outcome = "returned"
    /\ calls = <<>>
    /\ response = None
    /\ result = None
    /\ best_match = None
    /\ external_ids = None
    /\ warned = FALSE
    /\ deterministic = FALSE
    /\ cat = NoAnswers
    /\ pass = 1
    /\ first = None

InitSelect ==
    /\ sel_results \in SeqsUpTo(SelectHits, MaxHits)
    /\ sel_title \in SelectTitles
    /\ sel_year \in SelectYears
    /\ sel_pc = "call"
    /\ sel_return = None
    /\ sel_again = None
    /\ NoEnrich
    /\ NoRate
    /\ NoEq
    /\ NoLater

\* lines 180-221
Select ==
    /\ sel_pc = "call"
    /\ sel_return' = _find_best_match(sel_results, sel_title, sel_year)
    /\ sel_pc' = "done"
    /\ UNCHANGED <<sel_results, sel_title, sel_year, sel_again>>
    /\ UNCHANGED notSel

\* lines 180-221 once more, on the arguments of the first call: the function
\* reads its arguments only and assigns to none of them
SelectAgain ==
    /\ sel_pc = "done"
    /\ sel_again' = _find_best_match(sel_results, sel_title, sel_year)
    /\ sel_pc' = "again"
    /\ UNCHANGED <<sel_results, sel_title, sel_year, sel_return>>
    /\ UNCHANGED notSel

NextSelect == Select \/ SelectAgain
SpecSelect == InitSelect /\ [][NextSelect]_vars


(***************************************************************************)
(* TMDBClient._rate_limit and _get, called by several threads on one       *)
(* client.  Each line of _rate_limit is a step; the clock moves between    *)
(* any two steps.  The code holds no lock.                                 *)
(***************************************************************************)
InitRate ==
    /\ now = RATE_LIMIT_DELAY   \* time.time() is far past the 0.0 of line 23
    /\ _last_request_time = 0
    /\ rl_pc = [t \in Threads |-> "idle"]
    /\ elapsed = [t \in Threads |-> 0]
    /\ wake = [t \in Threads |-> 0]
    /\ gets = [t \in Threads |-> MaxGets]
    /\ sent = <<>>
    /\ NoEnrich
    /\ NoSelect
    /\ NoEq
    /\ NoLater

\* line 34: thread t enters _get and calls _rate_limit
CallGet(t) ==
    /\ rl_pc[t] = "idle"
    /\ gets[t] > 0
    /\ gets' = [gets EXCEPT ![t] = @ - 1]
    /\ rl_pc' = [rl_pc EXCEPT ![t] = "L27"]
    /\ UNCHANGED <<now, _last_request_time, elapsed, wake, sent>>
    /\ UNCHANGED notRate

\* line 27: elapsed = time.time() - self._last_request_time
ReadLastRequestTime(t) ==
    /\ rl_pc[t] = "L27"
    /\ elapsed' = [elapsed EXCEPT ![t] = now - _last_request_time]
    /\ rl_pc' = [rl_pc EXCEPT ![t] = "L28"]
    /\ UNCHANGED <<now, _last_request_time, wake, gets, sent>>
    /\ UNCHANGED notRate

\* lines 28-29: elapsed < RATE_LIMIT_DELAY, time.sleep begins
SleepStart(t) ==
    /\ rl_pc[t] = "L28"
    /\ elapsed[t] < RATE_LIMIT_DELAY
    /\ wake' = [wake EXCEPT ![t] = now + (RATE_LIMIT_DELAY - elapsed[t])]
    /\ rl_pc' = [rl_pc EXCEPT ![t] = "L29"]
    /\ UNCHANGED <<now, _last_request_time, elapsed, gets, sent>>
    /\ UNCHANGED notRate

\* line 28 is false
SleepSkip(t) ==
    /\ rl_pc[t] = "L28"
    /\ ~(elapsed[t] < RATE_LIMIT_DELAY)
    /\ rl_pc' = [rl_pc EXCEPT ![t] = "L30"]
    /\ UNCHANGED <<now, _last_request_time, elapsed, wake, gets, sent>>
    /\ UNCHANGED notRate

\* line 29: time.sleep returns, no sooner than asked
SleepEnd(t) ==
    /\ rl_pc[t] = "L29"
    /\ now >= wake[t]
    /\ rl_pc' = [rl_pc EXCEPT ![t] = "L30"]
    /\ UNCHANGED <<now, _last_request_time, elapsed, wake, gets, sent>>
    /\ UNCHANGED notRate

\* line 30: self._last_request_time = time.time(); _rate_limit returns and
\* the request goes out, at the time the limiter has just stamped
WriteLastRequestTime(t) ==
    /\ rl_pc[t] = "L30"
    /\ _last_request_time' = now
    /\ sent' = Append(sent, now)
    /\ rl_pc' = [rl_pc EXCEPT ![t] = "L42"]
    /\ UNCHANGED <<now, elapsed, wake, gets>>
    /\ UNCHANGED notRate

\* lines 36-47: session.get has answered or failed, _get returns
SessionGet(t) ==
    /\ rl_pc[t] = "L42"
    /\ rl_pc' = [rl_pc EXCEPT ![t] = "idle"]
    /\ elapsed' = [elapsed EXCEPT ![t] = 0]
    /\ wake' = [wake EXCEPT ![t] = 0]
    /\ UNCHANGED <<now, _last_request_time, gets, sent>>
    /\ UNCHANGED notRate

\* time passes
Tick ==
    /\ now < MaxNow
    /\ now' = now + 1
    /\ UNCHANGED <<_last_request_time, rl_pc, elapsed, wake, gets, sent>>
    /\ UNCHANGED notRate

NextRate ==
    \/ \E t \in Threads : CallGet(t)
    \/ \E t \in Threads : ReadLastRequestTime(t)
    \/ \E t \in Threads : SleepStart(t)
    \/ \E t \in Threads : SleepSkip(t)
    \/ \E t \in Threads : SleepEnd(t)
    \/ \E t \in Threads : WriteLastRequestTime(t)
    \/ \E t \in Threads : SessionGet(t)
    \/ Tick
SpecRate == InitRate /\ [][NextRate]_vars


(***************************************************************************)
(* Movie.__eq__ and Movie.__hash__, on every pair of objects of the        *)
(* domains below.  An object is a record with its class; neither method    *)
(* reads directors.                                                        *)
(***************************************************************************)
MovieTitles == {TUp, TUPPER, TIt}
MovieYears == {None, Val(1999), Val(2010)}
MovieTmdbIds == {None, Val(1), Val(2)}
MovieImdbIds == {None, Val("tt1"), Val("tt2")}
Movies ==
    { [class |-> "Movie", title |-> t, year |-> y, tmdb_id |-> i, imdb_id |-> j] :
        t \in MovieTitles, y \in MovieYears, i \in MovieTmdbIds, j \in MovieImdbIds }
\* an object of another class, for the right-hand side of ==
OtherObjects ==
    { [class |-> "str", title |-> TUp, year |-> None, tmdb_id |-> None,
       imdb_id |-> None] }

\* line 27: isinstance(other, Movie)
IsMovie(other) == other.class = "Movie"

\* lines 26-33 with the imdb_id compared ahead of the tmdb_id
__eq__imdb_first(self, other) ==
    IF ~IsMovie(other) THEN FALSE
    ELSE IF TruthyStr(self.imdb_id) /\ TruthyStr(other.imdb_id)
    THEN self.imdb_id = other.imdb_id
    ELSE IF TruthyInt(self.tmdb_id) /\ TruthyInt(other.tmdb_id)
    THEN self.tmdb_id = other.tmdb_id
    ELSE Lower(self.title) = Lower(other.title) /\ self.year = other.year

\* lines 26-33
__eq__(self, other) ==
    IF ~IsMovie(other) THEN FALSE
    ELSE IF TruthyInt(self.tmdb_id) /\ TruthyInt(other.tmdb_id)
    THEN self.tmdb_id = other.tmdb_id
    ELSE IF TruthyStr(self.imdb_id) /\ TruthyStr(other.imdb_id)
    THEN self.imdb_id = other.imdb_id
    ELSE Lower(self.title) = Lower(other.title) /\ self.year = other.year

\* lines 18-24: the tuple handed to hash(), under the line that builds it.
\* hash() of equal tuples is equal; of different tuples it is taken to be
\* different (a 64-bit hash, salted per process).
__hash__(self) ==
    IF TruthyInt(self.tmdb_id) THEN <<"L21", <<"tmdb", self.tmdb_id[2]>> >>
    ELSE IF TruthyStr(self.imdb_id) THEN <<"L23", <<"imdb", self.imdb_id[2]>> >>
    ELSE <<"L24", <<Lower(self.title), self.year>> >>
\* hash(a) == hash(b): tuples built by different lines differ in the domains
\* above, whose titles are neither "tmdb" nor "imdb"
HashEquals(h, g) == h[1] = g[1] /\ h[2] = g[2]

InitEq ==
    /\ eq_self \in Movies
    /\ eq_other \in Movies \cup OtherObjects
    /\ eq_pc = "call"
    /\ eq_result = FALSE
    /\ hash_self = None
    /\ hash_other = None
    /\ NoEnrich
    /\ NoSelect
    /\ NoRate
    /\ NoLater

\* a == b
Compare ==
    /\ eq_pc = "call"
    /\ eq_result' = __eq__(eq_self, eq_other)
    /\ eq_pc' = "compared"
    /\ UNCHANGED <<eq_self, eq_other, hash_self, hash_other>>
    /\ UNCHANGED notEq

\* hash(a) and hash(b), b a Movie
HashBoth ==
    /\ eq_pc = "compared"
    /\ IsMovie(eq_other)
    /\ hash_self' = __hash__(eq_self)
    /\ hash_other' = __hash__(eq_other)
    /\ eq_pc' = "hashed"
    /\ UNCHANGED <<eq_self, eq_other, eq_result>>
    /\ UNCHANGED notEq

NextEq == Compare \/ HashBoth
SpecEq == InitEq /\ [][NextEq]_vars

\* nothing of the resolver
NoCore == NoEnrich /\ NoSelect /\ NoRate /\ NoEq


(***************************************************************************)
(* WatchEntry.convert_rating_10_to_5 (src/models.py).  A float is the      *)
(* fraction [num, den] it holds; the ratings are the one-decimal values 0.0 *)
(* to MaxTenths / 10, for which rating_10 / 2.0 and rating_5 * 2 are exact  *)
(* in binary floating point.                                               *)
(***************************************************************************)
Ratings10 == {[num |-> t, den |-> 10] : t \in 0..MaxTenths}

\* x / 2.0 and x / 2
Halve(x) == [num |-> x.num, den |-> x.den * 2]
\* line 52 with rating_5 rounded as it is
WithoutDoubling(x) == x

\* x * 2
Double(x) == [num |-> x.num * 2, den |-> x.den]
\* round(x): the nearest integer, a tie going to the even one
round(x) ==
    LET q == x.num \div x.den
        r == x.num % x.den
    IN  [ num |-> IF 2 * r < x.den THEN q
                  ELSE IF 2 * r > x.den THEN q + 1
                  ELSE IF q % 2 = 0 THEN q ELSE q + 1,
          den |-> 1 ]

\* lines 47-52
convert_rating_10_to_5(rating_10) ==
    LET rating_5 == Halve(rating_10)
    IN  Halve(round(Double(rating_5)))

InitRating ==
    /\ rt_a \in Ratings10
    /\ rt_b \in Ratings10
    /\ rt_pc = "call"
    /\ rt_ra = None
    /\ rt_rb = None
    /\ NoCore
    /\ NoLaterBut("rating")

\* the conversion of the two ratings
Convert ==
    /\ rt_pc = "call"
    /\ rt_ra' = convert_rating_10_to_5(rt_a)
    /\ rt_rb' = convert_rating_10_to_5(rt_b)
    /\ rt_pc' = "done"
    /\ UNCHANGED <<rt_a, rt_b>>
    /\ UNCHANGED notRating

NextRating == Convert
SpecRating == InitRating /\ [][NextRating]_vars


(***************************************************************************)
(* Movie.__eq__ on three objects: a == a, a == b, b == a, b == c, a == c.  *)
(***************************************************************************)
TripleMovies ==
    { m \in Movies : m.title \in {TUp, TIt} /\ m.year \in {None, Val(2010)} }

InitTriple ==
    /\ tr_a \in TripleMovies
    /\ tr_b \in TripleMovies
    /\ tr_c \in TripleMovies
    /\ tr_pc = "call"
    /\ tr_eq = None
    /\ NoCore
    /\ NoLaterBut("triple")

\* the five comparisons
CompareThree ==
    /\ tr_pc = "call"
    /\ tr_eq' = [ aa |-> __eq__(tr_a, tr_a), ab |-> __eq__(tr_a, tr_b),
                  ba |-> __eq__(tr_b, tr_a), bc |-> __eq__(tr_b, tr_c),
                  ac |-> __eq__(tr_a, tr_c) ]
    /\ tr_pc' = "compared"
    /\ UNCHANGED <<tr_a, tr_b, tr_c>>
    /\ UNCHANGED notTriple

NextTriple == CompareThree
SpecTriple == InitTriple /\ [][NextTriple]_vars


(***************************************************************************)
(* LetterboxdExporter.export_watched and export_watchlist                  *)
(* (src/exporters/letterboxd.py).  A file is Absent or File(header, rows);  *)
(* a row is a record, a cell of text a sequence of characters, an imdb id  *)
(* a string.  Entries carry the fields that tell them apart; directors,     *)
(* dates, tags and review are left at their defaults.                       *)
(***************************************************************************)
MaxEntries == 3

\* a CSV file written through csv.writer
File(header, rows) == <<"file", header, rows>>

\* str(n), n >= 0
RECURSIVE str(_)
str(n) ==
    IF n < 10 THEN <<Digits[n + 1]>>
    ELSE Append(str(n \div 10), Digits[(n % 10) + 1])
\* str(rating), the rating counted in halves: 7 is 3.5
FloatStr(h) == str(h \div 2) \o <<".">> \o (IF h % 2 = 1 THEN <<"5">> ELSE <<"0">>)

ExportMovies ==
    { m \in Movies \cup
        { [class |-> "Movie", title |-> TIt, year |-> None, tmdb_id |-> Val(0),
           imdb_id |-> Val("")] } :
        /\ <<m.title, m.year>> \in {<<TUp, Val(2010)>>, <<TIt, None>>}
        /\ m.tmdb_id \in {None, Val(0), Val(1)}
        /\ m.imdb_id \in {None, Val(""), Val("tt1")} }
\* WatchEntry and WatchlistEntry objects
WatchEntries ==
    { [movie |-> m, watched_date |-> None, rating |-> r] :
        m \in ExportMovies, r \in {None, Val(7)} }
WatchlistEntries == { [movie |-> m, added_date |-> None] : m \in ExportMovies }
ExportEntries(kind) ==
    IF kind = "watched"
    THEN { e \in WatchEntries : (e.rating = None) = (e.movie.title = TIt) }
    ELSE WatchlistEntries
EntryLists(kind) ==
    UNION { [1..n -> ExportEntries(kind)] : n \in 0..MaxEntries }

WATCHED_HEADERS ==
    <<"imdbID", "tmdbID", "Title", "Year", "Directors", "WatchedDate", "Rating",
      "Rewatch", "Tags", "Review">>
WATCHLIST_HEADERS == <<"imdbID", "tmdbID", "Title", "Year", "Directors">>

\* lines 60 and 100 with the imdb_id not looked at
HasIdTmdbOnly(entry) == TruthyInt(entry.movie.tmdb_id)

\* lines 60 and 100: entry.movie.tmdb_id or entry.movie.imdb_id
HasId(entry) == TruthyInt(entry.movie.tmdb_id) \/ TruthyStr(entry.movie.imdb_id)

\* lines 122-156
_format_watched_row(entry) ==
    LET m == entry.movie
        rating_str == IF entry.rating # None THEN FloatStr(entry.rating[2]) ELSE <<>>
    IN  [ imdbID |-> IF TruthyStr(m.imdb_id) THEN m.imdb_id[2] ELSE "",
          tmdbID |-> IF TruthyInt(m.tmdb_id) THEN str(m.tmdb_id[2]) ELSE <<>>,
          Title |-> m.title,
          Year |-> IF TruthyInt(m.year) THEN str(m.year[2]) ELSE <<>>,
          Directors |-> <<>>,
          WatchedDate |-> <<>>,
          Rating |-> rating_str,
          Rewatch |-> "false",
          Tags |-> <<>>,
          Review |-> <<>> ]

\* lines 158-171
_format_watchlist_row(entry) ==
    LET m == entry.movie
    IN  [ imdbID |-> IF TruthyStr(m.imdb_id) THEN m.imdb_id[2] ELSE "",
          tmdbID |-> IF TruthyInt(m.tmdb_id) THEN str(m.tmdb_id[2]) ELSE <<>>,
          Title |-> m.title,
          Year |-> IF TruthyInt(m.year) THEN str(m.year[2]) ELSE <<>>,
          Directors |-> <<>> ]

\* lines 185-191: a row of _export_not_found
NotFoundWatchedRow(entry) ==
    [ Title |-> entry.movie.title,
      Year |-> IF TruthyInt(entry.movie.year) THEN str(entry.movie.year[2]) ELSE <<>>,
      WatchedDate |-> <<>>,
      Rating |-> IF TruthyInt(entry.rating) THEN FloatStr(entry.rating[2]) ELSE <<>>,
      Reason |-> "No TMDB/IMDB ID found" ]

\* lines 208-213: a row of _export_not_found_watchlist
NotFoundWatchlistRow(entry) ==
    [ Title |-> entry.movie.title,
      Year |-> IF TruthyInt(entry.movie.year) THEN str(entry.movie.year[2]) ELSE <<>>,
      AddedDate |-> <<>>,
      Reason |-> "No TMDB/IMDB ID found" ]

\* lines 66-72 and 106-112: the main CSV of the kind
MainFile(kind, entries) ==
    IF kind = "watched"
    THEN File(WATCHED_HEADERS,
              [i \in 1..Len(entries) |-> _format_watched_row(entries[i])])
    ELSE File(WATCHLIST_HEADERS,
              [i \in 1..Len(entries) |-> _format_watchlist_row(entries[i])])

\* lines 173-195 and 197-218: the not-found CSV of the kind
_export_not_found(kind, entries) ==
    IF kind = "watched"
    THEN File(<<"Title", "Year", "WatchedDate", "Rating", "Reason">>,
              [i \in 1..Len(entries) |-> NotFoundWatchedRow(entries[i])])
    ELSE File(<<"Title", "Year", "AddedDate", "Reason">>,
              [i \in 1..Len(entries) |-> NotFoundWatchlistRow(entries[i])])

\* the call: the output directory holds neither file
InitExport ==
    /\ ex_kind \in {"watched", "watchlist"}
    /\ ex_entries \in EntryLists(ex_kind)
    /\ ex_i = 1
    /\ ex_valid = <<>>
    /\ ex_not_found = <<>>
    /\ ex_main = Absent
    /\ ex_report = Absent
    /\ ex_pc = "loop"
    /\ NoCore
    /\ NoLaterBut("export")

\* lines 59-63 and 99-103: one turn of the loop
RouteEntry ==
    /\ ex_pc = "loop"
    /\ ex_i <= Len(ex_entries)
    /\ LET entry == ex_entries[ex_i]
       IN  IF HasId(entry)
           THEN /\ ex_valid' = Append(ex_valid, entry)
                /\ UNCHANGED ex_not_found
           ELSE /\ ex_not_found' = Append(ex_not_found, entry)
                /\ UNCHANGED ex_valid
    /\ ex_i' = ex_i + 1
    /\ UNCHANGED <<ex_kind, ex_entries, ex_main, ex_report, ex_pc>>
    /\ UNCHANGED notExport

\* lines 65-74 and 105-114: the loop is over, the main CSV is written
WriteMain ==
    /\ ex_pc = "loop"
    /\ ex_i > Len(ex_entries)
    /\ ex_main' = MainFile(ex_kind, ex_valid)
    /\ ex_pc' = "report"
    /\ UNCHANGED <<ex_kind, ex_entries, ex_i, ex_valid, ex_not_found, ex_report>>
    /\ UNCHANGED notExport

\* lines 77-80 and 117-120: the not-found CSV, written when not_found is not
\* empty
WriteNotFound ==
    /\ ex_pc = "report"
    /\ ex_not_found # <<>>
    /\ ex_report' = _export_not_found(ex_kind, ex_not_found)
    /\ ex_pc' = "done"
    /\ UNCHANGED <<ex_kind, ex_entries, ex_i, ex_valid, ex_not_found, ex_main>>
    /\ UNCHANGED notExport

\* lines 77 and 117 with not_found empty, then the return
ReturnPath ==
    /\ ex_pc = "report"
    /\ ex_not_found = <<>>
    /\ ex_pc' = "done"
    /\ UNCHANGED <<ex_kind, ex_entries, ex_i, ex_valid, ex_not_found, ex_main,
                   ex_report>>
    /\ UNCHANGED notExport

NextExport == RouteEntry \/ WriteMain \/ WriteNotFound \/ ReturnPath
SpecExport == InitExport /\ [][NextExport]_vars


(***************************************************************************)
(* SyncService.sync (src/web/sync_service.py) over Database.upsert_movie   *)
(* and Database.update_sync_status (src/web/database.py).  Each call of     *)
(* sync runs on a thread of its own and moves from line to line; a         *)
(* database call is one transaction.  A source movie is given as            *)
(* enrich_movie returns it under the catalog's answers; of the columns of   *)
(* table movies the ids, the title and the two flags are kept.              *)
(***************************************************************************)
\* the entries' movies, enriched
SyncMovies ==
    { [title |-> TUp, tmdb_id |-> None, imdb_id |-> None],
      [title |-> TUp, tmdb_id |-> Val(1), imdb_id |-> None],
      [title |-> TUp, tmdb_id |-> None, imdb_id |-> Val("tt1")],
      [title |-> TUp, tmdb_id |-> Val(1), imdb_id |-> Val("tt1")],
      [title |-> TUp, tmdb_id |-> Val(2), imdb_id |-> Val("tt1")],
      [title |-> TIt, tmdb_id |-> None, imdb_id |-> None],
      [title |-> TIt, tmdb_id |-> Val(2), imdb_id |-> None] }
SyncLists(max) == UNION { [1..n -> SyncMovies] : n \in 0..max }

\* lines 116-129: movie_data of a watched entry
WatchedData(m) ==
    [ tmdb_id |-> m.tmdb_id, imdb_id |-> m.imdb_id, title |-> m.title,
      is_watched |-> TRUE, is_watchlist |-> FALSE ]
\* lines 147-157: movie_data of a watchlist entry
WatchlistData(m) ==
    [ tmdb_id |-> m.tmdb_id, imdb_id |-> m.imdb_id, title |-> m.title,
      is_watched |-> FALSE, is_watchlist |-> TRUE ]

\* database.py lines 32-33: tmdb_id and imdb_id are unique, NULLs apart
UniqueIds(rows) ==
    \A i, j \in DOMAIN rows :
        i # j =>
            /\ rows[i].tmdb_id = None \/ rows[i].tmdb_id # rows[j].tmdb_id
            /\ rows[i].imdb_id = None \/ rows[i].imdb_id # rows[j].imdb_id

\* database.py lines 181-189: the position of existing, 0 for None
Existing(rows, movie_data) ==
    IF TruthyInt(movie_data.tmdb_id)
    THEN IF \E i \in DOMAIN rows : rows[i].tmdb_id = movie_data.tmdb_id
         THEN CHOOSE i \in DOMAIN rows : rows[i].tmdb_id = movie_data.tmdb_id
         ELSE 0
    ELSE IF TruthyStr(movie_data.imdb_id)
    THEN IF \E i \in DOMAIN rows : rows[i].imdb_id = movie_data.imdb_id
         THEN CHOOSE i \in DOMAIN rows : rows[i].imdb_id = movie_data.imdb_id
         ELSE 0
    ELSE 0

\* database.py lines 193-195: setattr for every value that is not None
Updated(existing, movie_data) ==
    [ existing EXCEPT
        !.tmdb_id = IF movie_data.tmdb_id # None THEN movie_data.tmdb_id ELSE @,
        !.imdb_id = IF movie_data.imdb_id # None THEN movie_data.imdb_id ELSE @,
        !.title = movie_data.title,
        !.is_watched = movie_data.is_watched,
        !.is_watchlist = movie_data.is_watchlist ]

\* database.py lines 176-204: the statement attempted, the rows after it and
\* the error of the commit, "" for none
upsert_movie(rows, movie_data) ==
    LET at == Existing(rows, movie_data)
        after ==
            IF at # 0
            THEN [rows EXCEPT ![at] = Updated(rows[at], movie_data)]
            ELSE Append(rows,
                     [ id |-> Len(rows) + 1, tmdb_id |-> movie_data.tmdb_id,
                       imdb_id |-> movie_data.imdb_id, title |-> movie_data.title,
                       is_watched |-> movie_data.is_watched,
                       is_watchlist |-> movie_data.is_watchlist ])
    IN  [ op |-> IF at # 0 THEN "update" ELSE "insert",
          rows |-> IF UniqueIds(after) THEN after ELSE rows,
          error |-> IF UniqueIds(after) THEN "" ELSE "IntegrityError" ]

\* app.py lines 25-43 and 218-232: the service constructed, no sync called
InitSync ==
    /\ _is_syncing = FALSE
    /\ on_sync_complete \in {None, Val("callback")}
    /\ src_watched \in SyncLists(MaxWatched)
    /\ src_watchlist \in SyncLists(MaxWatchlist)
    /\ db_movies = <<>>
    /\ db_status = SyncStatusDefault
    /\ db_last = NoUpsert
    /\ callbacks = <<>>
    /\ faults = 0
    /\ sy_pc = [c \in Calls |-> "ready"]
    /\ sy_i = [c \in Calls |-> 1]
    /\ sy_result = [c \in Calls |-> ""]
    /\ sy_conn = [c \in Calls |-> "untested"]
    /\ sy_error = [c \in Calls |-> ""]
    /\ sy_did = [c \in Calls |-> {}]
    /\ sy_keys = [c \in Calls |-> {}]
    /\ NoCore
    /\ NoLaterBut("sync")

syncFixed == <<on_sync_complete, src_watched, src_watchlist>>

\* the call moves to a line
Goto(c, line) == sy_pc' = [sy_pc EXCEPT ![c] = line]
\* the call returns or raises
Ends(c, status) == sy_result' = [sy_result EXCEPT ![c] = status]
\* the call has done these
Does(c, what) == sy_did' = [sy_did EXCEPT ![c] = @ \cup what]

\* database.py lines 292-304: every keyword is set on the row, None too
update_sync_status(c, kwargs) ==
    /\ db_status' = [ k \in DOMAIN db_status |->
                        IF k \in DOMAIN kwargs THEN kwargs[k] ELSE db_status[k] ]
    /\ sy_keys' = [sy_keys EXCEPT ![c] = @ \cup DOMAIN kwargs]

\* whether this write of the status row fails (the commit raises)
WriteFails == IF faults < MaxFaults THEN BOOLEAN ELSE {FALSE}

\* line 80: the test of _is_syncing
CheckIsSyncing(c) ==
    /\ sy_pc[c] = "ready"
    /\ Goto(c, IF _is_syncing THEN "L81" ELSE "L84")
    /\ UNCHANGED <<_is_syncing, syncFixed, db_movies, db_status, db_last, callbacks,
                   faults, sy_i, sy_result, sy_conn, sy_error, sy_did, sy_keys>>
    /\ UNCHANGED notSync

\* lines 81-82 with the return inside the try of line 87
ReturnSkippedThroughFinally(c) ==
    /\ sy_pc[c] = "L81"
    /\ Ends(c, "skipped")
    /\ Goto(c, "L191")
    /\ UNCHANGED <<_is_syncing, syncFixed, db_movies, db_status, db_last, callbacks,
                   faults, sy_i, sy_conn, sy_error, sy_did, sy_keys>>
    /\ UNCHANGED notSync

\* lines 81-82: the warning and the return
ReturnSkipped(c) ==
    /\ sy_pc[c] = "L81"
    /\ Ends(c, "skipped")
    /\ Goto(c, "returned")
    /\ UNCHANGED <<_is_syncing, syncFixed, db_movies, db_status, db_last, callbacks,
                   faults, sy_i, sy_conn, sy_error, sy_did, sy_keys>>
    /\ UNCHANGED notSync

\* line 84
SetIsSyncing(c) ==
    /\ sy_pc[c] = "L84"
    /\ _is_syncing' = TRUE
    /\ Goto(c, "L85")
    /\ UNCHANGED <<syncFixed, db_movies, db_status, db_last, callbacks, faults,
                   sy_i, sy_result, sy_conn, sy_error, sy_did, sy_keys>>
    /\ UNCHANGED notSync

\* line 85, outside the try: when the write raises, the call raises
StatusSyncing(c) ==
    /\ sy_pc[c] = "L85"
    /\ \E fails \in WriteFails :
        IF fails
        THEN /\ faults' = faults + 1
             /\ Ends(c, "raised")
             /\ Goto(c, "returned")
             /\ UNCHANGED <<db_status, sy_keys>>
        ELSE /\ update_sync_status(c, [status |-> "syncing", error_message |-> None])
             /\ Goto(c, "L91")
             /\ UNCHANGED <<faults, sy_result>>
    /\ UNCHANGED <<_is_syncing, syncFixed, db_movies, db_last, callbacks, sy_i,
                   sy_conn, sy_error, sy_did>>
    /\ UNCHANGED notSync

\* lines 91-92 with the answer of test_connection not looked at
TestConnectionIgnored(c) ==
    /\ sy_pc[c] = "L91"
    /\ \E up \in BOOLEAN :
        sy_conn' = [sy_conn EXCEPT ![c] = IF up THEN "up" ELSE "down"]
    /\ Goto(c, "L95")
    /\ UNCHANGED <<_is_syncing, syncFixed, db_movies, db_status, db_last, callbacks,
                   faults, sy_i, sy_result, sy_error, sy_did, sy_keys>>
    /\ UNCHANGED notSync

\* lines 91-92: test_connection, and the exception raised when it is false
TestConnection(c) ==
    /\ sy_pc[c] = "L91"
    /\ \E up \in BOOLEAN :
        IF up
        THEN /\ sy_conn' = [sy_conn EXCEPT ![c] = "up"]
             /\ Goto(c, "L95")
             /\ UNCHANGED sy_error
        ELSE /\ sy_conn' = [sy_conn EXCEPT ![c] = "down"]
             /\ sy_error' = [sy_error EXCEPT ![c] = "Failed to connect to source"]
             /\ Goto(c, "L183")
    /\ UNCHANGED <<_is_syncing, syncFixed, db_movies, db_status, db_last, callbacks,
                   faults, sy_i, sy_result, sy_did, sy_keys>>
    /\ UNCHANGED notSync

\* lines 95-103: get_watched and get_watchlist
FetchLists(c) ==
    /\ sy_pc[c] = "L95"
    /\ Does(c, {"fetch"})
    /\ sy_i' = [sy_i EXCEPT ![c] = 1]
    /\ Goto(c, "L104")
    /\ UNCHANGED <<_is_syncing, syncFixed, db_movies, db_status, db_last, callbacks,
                   faults, sy_result, sy_conn, sy_error, sy_keys>>
    /\ UNCHANGED notSync

\* one turn of a loop: enrich_movie, get_movie_details, upsert_movie; an
\* IntegrityError of the commit leaves the loop for line 182
ProcessEntry(c, movie_data) ==
    LET done == upsert_movie(db_movies, movie_data)
    IN  /\ Does(c, {"catalog", "upsert"})
        /\ db_last' = [n |-> db_last.n + 1, op |-> done.op, data |-> movie_data]
        /\ db_movies' = done.rows
        /\ IF done.error = ""
           THEN /\ sy_i' = [sy_i EXCEPT ![c] = @ + 1]
                /\ UNCHANGED <<sy_pc, sy_error>>
           ELSE /\ sy_error' = [sy_error EXCEPT ![c] = done.error]
                /\ Goto(c, "L183")
                /\ UNCHANGED sy_i
        /\ UNCHANGED <<_is_syncing, syncFixed, db_status, callbacks, faults,
                       sy_result, sy_conn, sy_keys>>
        /\ UNCHANGED notSync

\* lines 104-131
ProcessWatched(c) ==
    /\ sy_pc[c] = "L104"
    /\ sy_i[c] <= Len(src_watched)
    /\ ProcessEntry(c, WatchedData(src_watched[sy_i[c]]))

\* the loop of line 104 is over
WatchedDone(c) ==
    /\ sy_pc[c] = "L104"
    /\ sy_i[c] > Len(src_watched)
    /\ sy_i' = [sy_i EXCEPT ![c] = 1]
    /\ Goto(c, "L135")
    /\ UNCHANGED <<_is_syncing, syncFixed, db_movies, db_status, db_last, callbacks,
                   faults, sy_result, sy_conn, sy_error, sy_did, sy_keys>>
    /\ UNCHANGED notSync

\* lines 135-158
ProcessWatchlist(c) ==
    /\ sy_pc[c] = "L135"
    /\ sy_i[c] <= Len(src_watchlist)
    /\ ProcessEntry(c, WatchlistData(src_watchlist[sy_i[c]]))

\* the loop of line 135 is over
WatchlistDone(c) ==
    /\ sy_pc[c] = "L135"
    /\ sy_i[c] > Len(src_watchlist)
    /\ Goto(c, "L161")
    /\ UNCHANGED <<_is_syncing, syncFixed, db_movies, db_status, db_last, callbacks,
                   faults, sy_i, sy_result, sy_conn, sy_error, sy_did, sy_keys>>
    /\ UNCHANGED notSync

\* lines 161-166: inside the try, a failure goes to line 182.  last_sync is
\* the time of the call, told apart by the call
StatusIdle(c) ==
    /\ sy_pc[c] = "L161"
    /\ \E fails \in WriteFails :
        IF fails
        THEN /\ faults' = faults + 1
             /\ sy_error' = [sy_error EXCEPT ![c] = "OperationalError"]
             /\ Goto(c, "L183")
             /\ UNCHANGED <<db_status, sy_keys>>
        ELSE /\ update_sync_status(c,
                    [ last_sync |-> Val(c), movies_count |-> Len(src_watched),
                      watchlist_count |-> Len(src_watchlist), status |-> "idle" ])
             /\ Goto(c, "L177")
             /\ UNCHANGED <<faults, sy_error>>
    /\ UNCHANGED <<_is_syncing, syncFixed, db_movies, db_last, callbacks, sy_i,
                   sy_result, sy_conn, sy_did>>
    /\ UNCHANGED notSync

\* lines 170-180: the result, the callback when there is one, the return
Complete(c) ==
    /\ sy_pc[c] = "L177"
    /\ IF on_sync_complete # None
       THEN /\ callbacks' = Append(callbacks, c)
            /\ Does(c, {"callback"})
       ELSE UNCHANGED <<callbacks, sy_did>>
    /\ Ends(c, "success")
    /\ Goto(c, "L191")
    /\ UNCHANGED <<_is_syncing, syncFixed, db_movies, db_status, db_last, faults,
                   sy_i, sy_conn, sy_error, sy_keys>>
    /\ UNCHANGED notSync

\* lines 182-188: the handler; when its own write raises, the call raises
StatusError(c) ==
    /\ sy_pc[c] = "L183"
    /\ \E fails \in WriteFails :
        IF fails
        THEN /\ faults' = faults + 1
             /\ Ends(c, "raised")
             /\ UNCHANGED <<db_status, sy_keys>>
        ELSE /\ update_sync_status(c,
                    [status |-> "error", error_message |-> Val(sy_error[c])])
             /\ Ends(c, "error")
             /\ UNCHANGED faults
    /\ Goto(c, "L191")
    /\ UNCHANGED <<_is_syncing, syncFixed, db_movies, db_last, callbacks, sy_i,
                   sy_conn, sy_error, sy_did>>
    /\ UNCHANGED notSync

\* lines 190-191
Finally(c) ==
    /\ sy_pc[c] = "L191"
    /\ _is_syncing' = FALSE
    /\ Goto(c, "returned")
    /\ UNCHANGED <<syncFixed, db_movies, db_status, db_last, callbacks, faults,
                   sy_i, sy_result, sy_conn, sy_error, sy_did, sy_keys>>
    /\ UNCHANGED notSync

NextSync ==
    \E c \in Calls :
        \/ CheckIsSyncing(c)
        \/ ReturnSkipped(c)
        \/ SetIsSyncing(c)
        \/ StatusSyncing(c)
        \/ TestConnection(c)
        \/ FetchLists(c)
        \/ ProcessWatched(c)
        \/ WatchedDone(c)
        \/ ProcessWatchlist(c)
        \/ WatchlistDone(c)
        \/ StatusIdle(c)
        \/ Complete(c)
        \/ StatusError(c)
        \/ Finally(c)
SpecSync == InitSync /\ [][NextSync]_vars


(***************************************************************************)
(* Properties of enrich_movie                                              *)
(***************************************************************************)
Returned == pc = "done" /\ outcome = "returned"
IsCall(i, op) == i \in DOMAIN calls /\ calls[i].op = op

\* C1: in every strategy and for every catalog answer, a field that is set
\* on the input (title, a truthy year, tmdb_id or imdb_id, a non-empty
\* directors list) has the same value in the returned record.
C1_NoOverwrite ==
    Returned =>
      LET r == Rec(enriched)
      IN  /\ r.title = orig.title
          /\ TruthyInt(orig.year) => r.year = orig.year
          /\ TruthyInt(orig.tmdb_id) => r.tmdb_id = orig.tmdb_id
          /\ TruthyStr(orig.imdb_id) => r.imdb_id = orig.imdb_id
          /\ orig.directors # <<>> => r.directors = orig.directors

\* a record with every field set came back from strategy 1, whose details
\* offered another year, another imdb id and a Director
C1_Witness ==
    /\ Returned
    /\ calls = <<[op |-> "get_movie_details", arg |-> <<Val(1)>>]>>
    /\ orig.year = Val(2010) /\ orig.imdb_id = Val("tt1")
    /\ orig.directors = <<Val("Zed")>>
    /\ DictTruthy(response)
    /\ ParseYear(response[2].release_date) = Val(1999)
    /\ response[2].external_ids = Val([imdb_id |-> Val("tt2")])
    /\ response[2].credits =
         Val([crew |-> Val(<<[job |-> Val("Director"), name |-> Val("Ann")]>>)])

\* the operations a strategy may call
StrategyOps(r) ==
    IF TruthyInt(r.tmdb_id) THEN {"get_movie_details"}
    ELSE IF TruthyStr(r.imdb_id) THEN {"find_by_imdb_id", "get_movie_details"}
    ELSE {"search_movie", "get_external_ids", "get_movie_details"}
FirstOp(r) ==
    IF TruthyInt(r.tmdb_id) THEN "get_movie_details"
    ELSE IF TruthyStr(r.imdb_id) THEN "find_by_imdb_id"
    ELSE "search_movie"

\* C2: one call runs one strategy, chosen from the ids of the input alone:
\* its first request is get_movie_details with a tmdb_id, find_by_imdb_id
\* with an imdb_id only, search_movie with no id; it never leaves the call
\* without that request, and every later request is one of the same
\* strategy, so search_movie is never called for a record with an id and
\* find_by_imdb_id never for a record with a tmdb_id.
C2_OneStrategy ==
    /\ calls # <<>> => calls[1].op = FirstOp(orig)
    /\ pc = "done" => calls # <<>>
    /\ \A i \in DOMAIN calls : calls[i].op \in StrategyOps(orig)

\* strategy 1 got no details for a record that also has an imdb_id, and the
\* call ended there
C2_Witness ==
    /\ Returned
    /\ TruthyInt(orig.tmdb_id) /\ TruthyStr(orig.imdb_id)
    /\ response = None
    /\ calls = <<[op |-> "get_movie_details", arg |-> <<orig.tmdb_id>>]>>


(***************************************************************************)
(* Properties of _find_best_match                                          *)
(***************************************************************************)
\* the title or the original title of hit h is title, case ignored
TitleEquals(h, title) ==
    \/ IsVal(h.title) /\ Lower(h.title[2]) = Lower(title)
    \/ IsVal(h.original_title) /\ Lower(h.original_title[2]) = Lower(title)
\* the release date of hit h parses to year
YearEquals(h, year) == TruthyInt(year) /\ ParseYear(h.release_date) = year

TitleYearHits ==
    {i \in DOMAIN sel_results :
        TitleEquals(sel_results[i], sel_title) /\ YearEquals(sel_results[i], sel_year)}
Least(S) == CHOOSE i \in S : \A j \in S : i <= j

\* C3: with a year given, when some hit matches the title (case ignored)
\* and the year, _find_best_match returns the first such hit, also when an
\* earlier hit matches the title only.
C3_TitleYearTierFirst ==
    (sel_pc = "done" /\ ~Raised(sel_return) /\ TitleYearHits # {})
        => sel_return = Val(sel_results[Least(TitleYearHits)])


(***************************************************************************)
(* Properties of enrich_movie, continued                                   *)
(***************************************************************************)
\* C4: against a deterministic catalog, enrich_movie(enrich_movie(r)) has
\* the tmdb_id and the imdb_id of enrich_movie(r).
C4_Idempotent ==
    (pass = 2 /\ Returned) =>
        /\ Rec(enriched).tmdb_id = first[2].tmdb_id
        /\ Rec(enriched).imdb_id = first[2].imdb_id

\* C5: whatever the catalog answers, enrich_movie returns a record: no
\* exception leaves the call.
C5_Total == outcome \in {"running", "returned"}

\* C6: the argument keeps its fields and the elements of its directors
\* list through the call, and the record returned is another object with
\* another directors list.
C6_ArgumentUntouched ==
    /\ Rec(movie) = orig
    /\ Returned =>
         /\ enriched # movie
         /\ objs[enriched].directors # objs[movie].directors

\* a record with directors came back with them, from strategy 1 with details
C6_Witness ==
    /\ Returned
    /\ orig.directors = <<Val("Zed")>>
    /\ Rec(enriched).directors = <<Val("Zed")>>
    /\ IsCall(1, "get_movie_details") /\ DictTruthy(response)
    /\ Rec(enriched).imdb_id # orig.imdb_id


\* what a details object offers: its cross-reference imdb id, the names of
\* its crew entries whose job is "Director" in the order of the crew, and
\* the year its release date starts with
ImdbIdOf(d) ==
    IF IsVal(d.external_ids) THEN Get(d.external_ids[2].imdb_id) ELSE None
CrewOf(d) ==
    IF IsVal(d.credits) /\ IsVal(d.credits[2].crew) THEN d.credits[2].crew[2]
    ELSE <<>>
IsDirector(p) == p.job = Val("Director")
DirectorsOf(d) ==
    LET ds == SelectSeq(CrewOf(d), IsDirector)
    IN  [i \in 1..Len(ds) |-> ds[i].name]
\* imdb_id unless it is set, and then the offered one, if any
FilledImdbId(imdb_id, offered) ==
    IF ~TruthyStr(imdb_id) /\ TruthyStr(offered) THEN offered ELSE imdb_id
\* year unless it is set, and then the year the date parses to, if any
FilledYear(year, release_date) ==
    IF ~TruthyInt(year) /\ ParseYear(release_date) # None
    THEN ParseYear(release_date) ELSE year
\* directors unless there are some, and then those of the details, if any
FilledDirectors(directors, details) ==
    IF directors # <<>> THEN directors
    ELSE IF DictTruthy(details) THEN DirectorsOf(details[2]) ELSE <<>>

DetailsCall(id) == [op |-> "get_movie_details", arg |-> <<id>>]
ExternalIdsCall(id) == [op |-> "get_external_ids", arg |-> <<id>>]

\* C7: strategy 1 with details found returns imdb_id = the details'
\* cross-reference id when the input had none, directors = the names of the
\* "Director" crew entries in catalog order when the input had none, year =
\* the integer the first 4 characters of release_date parse to when the input
\* had none, unset when they do not parse.
C7_Strategy1Fill ==
    (Returned /\ Len(calls) = 1 /\ IsCall(1, "get_movie_details")
              /\ DictTruthy(response)) =>
      LET d == response[2]
          r == Rec(enriched)
      IN  /\ r.imdb_id = FilledImdbId(orig.imdb_id, ImdbIdOf(d))
          /\ r.directors = FilledDirectors(orig.directors, response)
          /\ r.year = FilledYear(orig.year, d.release_date)
          /\ r.tmdb_id = orig.tmdb_id

\* a record with only a tmdb_id came back with all three fields filled
C7_Witness ==
    /\ Returned /\ Len(calls) = 1 /\ IsCall(1, "get_movie_details")
    /\ orig.imdb_id = None /\ orig.directors = <<>> /\ orig.year = None
    /\ DictTruthy(response)
    /\ Len(CrewOf(response[2])) = 2
    /\ Rec(enriched).imdb_id = Val("tt2")
    /\ Rec(enriched).directors = <<Val("Bob"), Val("Ann")>>
    /\ Rec(enriched).year = Val(1999)

\* strategy 2 ran and find_by_imdb_id returned a hit
Strategy2Hit == IsCall(1, "find_by_imdb_id") /\ DictTruthy(result)

\* C8: strategy 2 with a hit returns tmdb_id = the hit's id and the imdb_id
\* of the input, fills year from the hit's release date only if it was unset,
\* calls get_movie_details once, after find_by_imdb_id, exactly when the hit
\* gave a tmdb_id, and fills directors from it only if they were empty.
C8_Strategy2Hit ==
    /\ Strategy2Hit =>
         /\ Len(calls) <= 2
         /\ Len(calls) = 2 =>
              /\ TruthyInt(Get(result[2].id))
              /\ calls[2] = DetailsCall(Get(result[2].id))
    /\ (pc = "done" /\ Strategy2Hit /\ TruthyInt(Get(result[2].id)))
         => Len(calls) = 2
    /\ (Returned /\ Strategy2Hit) =>
         LET r == Rec(enriched)
         IN  /\ r.tmdb_id = Get(result[2].id)
             /\ r.imdb_id = orig.imdb_id
             /\ r.year = FilledYear(orig.year, result[2].release_date)
             /\ r.directors =
                  IF Len(calls) = 2 THEN FilledDirectors(orig.directors, response)
                  ELSE orig.directors

\* a record with only an imdb_id came back with the hit's id and year, and
\* with the director of the details asked for that id
C8_Witness ==
    /\ Returned /\ Strategy2Hit
    /\ orig.year = None /\ orig.directors = <<>>
    /\ calls = <<[op |-> "find_by_imdb_id", arg |-> <<Val("tt1")>>],
                 DetailsCall(Val(1))>>
    /\ Rec(enriched).tmdb_id = Val(1)
    /\ Rec(enriched).year = Val(1999)
    /\ Rec(enriched).directors = <<Val("Ann")>>

\* strategy 3 ran and _find_best_match chose a hit
Strategy3Match == IsCall(1, "search_movie") /\ DictTruthy(best_match)

\* C9: strategy 3 with a non-empty result list returns tmdb_id = the id of
\* the hit _find_best_match chooses, keeps a year that was set and else takes
\* the year of that hit, fills imdb_id from get_external_ids(tmdb_id) and
\* directors from get_movie_details(tmdb_id), both requests made only once a
\* tmdb_id was obtained.
C9_Strategy3Match ==
    /\ (Len(calls) = 1 /\ IsCall(1, "search_movie") /\ response # <<>>
            /\ outcome \in {"running", "returned"}) =>
         LET chosen == _find_best_match(response, orig.title, orig.year)
         IN  /\ best_match = chosen
             /\ Rec(enriched).tmdb_id = Get(chosen[2].id)
    /\ (Len(calls) >= 2 /\ IsCall(1, "search_movie")) =>
         /\ Strategy3Match
         /\ TruthyInt(Get(best_match[2].id))
         /\ SubSeq(calls, 2, Len(calls)) \in
              { <<ExternalIdsCall(Get(best_match[2].id))>>,
                <<ExternalIdsCall(Get(best_match[2].id)),
                  DetailsCall(Get(best_match[2].id))>> }
    /\ (pc = "done" /\ Strategy3Match /\ TruthyInt(Get(best_match[2].id)))
         => Len(calls) = 3
    /\ (Returned /\ Strategy3Match) =>
         LET r == Rec(enriched)
         IN  /\ r.tmdb_id = Get(best_match[2].id)
             /\ r.year = FilledYear(orig.year, best_match[2].release_date)
             /\ r.imdb_id =
                  IF Len(calls) = 3 /\ IsVal(external_ids)
                  THEN FilledImdbId(orig.imdb_id, Get(external_ids[2].imdb_id))
                  ELSE orig.imdb_id
             /\ r.directors =
                  IF Len(calls) = 3 THEN FilledDirectors(orig.directors, response)
                  ELSE orig.directors

\* the end-to-end case of the spec: a record with a year and no id came back
\* with the id of the match, its own year, an imdb_id and a director
C9_Witness ==
    /\ Returned /\ Strategy3Match /\ Len(calls) = 3
    /\ orig.year = Val(2010)
    /\ ParseYear(best_match[2].release_date) = Val(1999)
    /\ Rec(enriched).tmdb_id = Val(1)
    /\ Rec(enriched).year = Val(2010)
    /\ Rec(enriched).imdb_id = Val("tt2")
    /\ Rec(enriched).directors = <<Val("Ann")>>

\* strategy 2 ran and find_by_imdb_id returned no hit
Strategy2NoHit == IsCall(1, "find_by_imdb_id") /\ ~DictTruthy(result)

\* C10: strategy 2 without a hit makes no request after find_by_imdb_id,
\* no title search either, and returns a record equal to the input in
\* every field, tmdb_id still unset.
C10_Strategy2NoHit ==
    /\ Strategy2NoHit => Len(calls) = 1
    /\ (pc = "done" /\ Strategy2NoHit) =>
         /\ outcome = "returned"
         /\ Rec(enriched) = orig
         /\ ~TruthyInt(Rec(enriched).tmdb_id)

\* the case of the spec: title, no year, imdb_id only, find returns None
C10_Witness ==
    /\ Returned /\ Strategy2NoHit /\ result = None
    /\ orig.year = None /\ orig.tmdb_id = None /\ orig.imdb_id = Val("tt1")

\* strategy 3 ran
Strategy3Ran == IsCall(1, "search_movie")

\* C11: for a record with no ids, when search_movie returns an empty list
\* or no match is chosen, the record returned equals the input in every
\* field and the warning of line 176 was logged; and no record comes back
\* from strategy 3 with both ids unset and a changed field, or with both ids
\* unset and no warning.
C11_ResolutionFailure ==
    /\ (Returned /\ Strategy3Ran /\ Len(calls) = 1
            /\ (response = <<>> \/ ~DictTruthy(best_match))) =>
         /\ Rec(enriched) = orig
         /\ warned
    /\ (Returned /\ Strategy3Ran /\ ~TruthyInt(Rec(enriched).tmdb_id)
            /\ ~TruthyStr(Rec(enriched).imdb_id)) =>
         /\ Rec(enriched) = orig
         /\ warned

\* C12: for a record whose tmdb_id is set, the requests of one call are a
\* single get_movie_details(tmdb_id), made before the call ends whether or
\* not details come back; when none come back the record returned equals the
\* input in every field.
C12_Strategy1OneRequest ==
    TruthyInt(orig.tmdb_id) =>
      /\ Len(calls) <= 1
      /\ \A i \in DOMAIN calls : calls[i] = DetailsCall(orig.tmdb_id)
      /\ pc = "done" => Len(calls) = 1
      /\ (Returned /\ ~DictTruthy(response)) => Rec(enriched) = orig

\* a record with a tmdb_id only got no details and came back as it was
C12_Witness ==
    /\ Returned
    /\ orig.tmdb_id = Val(1) /\ orig.imdb_id = None /\ orig.directors = <<>>
    /\ calls = <<DetailsCall(Val(1))>>
    /\ response = None
    /\ Rec(enriched) = orig


(***************************************************************************)
(* Properties of _find_best_match, continued                               *)
(***************************************************************************)
\* the lone call has returned a value (None or a hit)
SelReturned == sel_pc \in {"done", "again"} /\ ~Raised(sel_return)
TitleHits ==
    {i \in DOMAIN sel_results : TitleEquals(sel_results[i], sel_title)}
YearHits ==
    {i \in DOMAIN sel_results : YearEquals(sel_results[i], sel_year)}

\* C13: when no hit matches both the title and the year, _find_best_match
\* returns the first hit whose title or original_title is the title, case
\* ignored, if there is one, also when an earlier hit matches the year only;
\* else, with a year given, the first hit whose release date parses to the
\* year; else the first hit.  "First" is by position in the list as given.
C13_FallbackOrder ==
    (SelReturned /\ sel_results # <<>> /\ TitleYearHits = {}) =>
        sel_return =
          IF TitleHits # {} THEN Val(sel_results[Least(TitleHits)])
          ELSE IF YearHits # {} THEN Val(sel_results[Least(YearHits)])
          ELSE Val(sel_results[1])

\* the second hit matches the title only and is returned, past a first hit
\* that matches the year only
C13_Witness ==
    /\ sel_pc = "done"
    /\ Len(sel_results) = 2
    /\ TitleYearHits = {} /\ TitleHits = {2} /\ YearHits = {1}
    /\ sel_return = Val(sel_results[2])
    /\ sel_results[1] # sel_results[2]

\* no hit holds null for a title; a hit may lack the key
StringTitles ==
    \A i \in DOMAIN sel_results :
        sel_results[i].title # None /\ sel_results[i].original_title # None

NoYear(h) == ParseYear(h.release_date) = None

\* C15: a hit without a parsable release date is returned only as a title
\* match or as the first hit when nothing matches the year, never for its
\* year; and the call raises only over a null title, never over a date.
C15_UnparsedDate ==
    /\ (SelReturned /\ IsVal(sel_return) /\ NoYear(sel_return[2])) =>
         \/ TitleEquals(sel_return[2], sel_title)
         \/ YearHits = {} /\ sel_return = Val(sel_results[1])
    /\ (sel_pc \in {"done", "again"} /\ Raised(sel_return)) => ~StringTitles

\* with a year given, a hit whose date reads "TBA" came back as the title
\* match, past a first hit that has no date at all
C15_Witness ==
    /\ sel_pc = "done"
    /\ Len(sel_results) = 2
    /\ IsVal(sel_year)
    /\ sel_results[1].release_date = Absent /\ ~TitleEquals(sel_results[1], sel_title)
    /\ sel_results[2].release_date = Val(DBad)
    /\ sel_return = Val(sel_results[2])


(***************************************************************************)
(* Properties of enrich_movie, continued                                   *)
(***************************************************************************)
\* no operation is requested twice with the same argument
NoRepeat ==
    \A i, j \in DOMAIN calls :
        (i # j /\ calls[i].op = calls[j].op) => calls[i].arg # calls[j].arg
\* the most requests the strategy of record r makes
RequestLimit(r) ==
    IF TruthyInt(r.tmdb_id) THEN 1 ELSE IF TruthyStr(r.imdb_id) THEN 2 ELSE 3
\* a step issues at most one request, after those already issued
OneRequestAtATime ==
    /\ Len(calls') <= Len(calls) + 1
    /\ Len(calls') >= Len(calls)
    /\ \A i \in DOMAIN calls :
         calls'[i].op = calls[i].op /\ calls'[i].arg = calls[i].arg

\* C16: within one call of enrich_movie no request is issued twice, whatever
\* the answer to it was; the requests are issued one at a time, each after
\* the ones before it; and there are at most 1 of them in strategy 1, 2 in
\* strategy 2 and 3 in strategy 3.
C16_NoRetry ==
    /\ [](NoRepeat /\ Len(calls) <= RequestLimit(orig))
    /\ [][OneRequestAtATime]_vars

\* strategy 3 went on to get_movie_details after get_external_ids failed,
\* without asking again
C16_Witness ==
    /\ Returned
    /\ Len(calls) = 3 /\ IsCall(1, "search_movie")
    /\ calls[2] = ExternalIdsCall(Val(1)) /\ external_ids = None
    /\ calls[3] = DetailsCall(Val(1)) /\ response = None


(***************************************************************************)
(* Properties of _rate_limit                                               *)
(***************************************************************************)
\* any two requests of the client are RATE_LIMIT_DELAY apart
Spaced ==
    \A i, j \in DOMAIN sent : i < j => sent[j] - sent[i] >= RATE_LIMIT_DELAY
\* thread t has read _last_request_time and not yet written it
InRateLimit(t) == rl_pc[t] \in {"L28", "L29", "L30"}
\* at most one thread is between its read and its write
MutualExclusion ==
    \A t, u \in Threads : (InRateLimit(t) /\ InRateLimit(u)) => t = u

\* C17: for any number of threads on one client and any interleaving of
\* the read, the sleep and the write of _rate_limit, any two requests of the
\* client are at least RATE_LIMIT_DELAY apart, and _last_request_time is read
\* and updated under mutual exclusion.
C17_RateLimit == Spaced /\ MutualExclusion


(***************************************************************************)
(* Properties of Movie.__eq__ and Movie.__hash__                           *)
(***************************************************************************)
Compared == eq_pc \in {"compared", "hashed"} /\ IsMovie(eq_other)
HasTmdbId(m) == TruthyInt(m.tmdb_id)
HasImdbId(m) == TruthyStr(m.imdb_id)
BothTmdbIds == HasTmdbId(eq_self) /\ HasTmdbId(eq_other)
BothImdbIds == HasImdbId(eq_self) /\ HasImdbId(eq_other)
NoId(m) == ~HasTmdbId(m) /\ ~HasImdbId(m)
SameTitleYear ==
    Lower(eq_self.title) = Lower(eq_other.title) /\ eq_self.year = eq_other.year

\* C18: two Movie records are equal exactly when both have a tmdb_id and
\* the tmdb_ids match, or both have an imdb_id and the imdb_ids match, or
\* neither has any id and their lowercased titles and their years match; so
\* a record with an id never equals, on title and year, a record with no id
\* or with the other kind of id only.
C18_SameMovie ==
    Compared =>
        (eq_result <=>
            \/ BothTmdbIds /\ eq_self.tmdb_id = eq_other.tmdb_id
            \/ BothImdbIds /\ eq_self.imdb_id = eq_other.imdb_id
            \/ NoId(eq_self) /\ NoId(eq_other) /\ SameTitleYear)

\* C19: a == b implies hash(a) == hash(b), for every pair of Movie records.
C19_HashConsistent ==
    (eq_pc = "hashed" /\ eq_result) => HashEquals(hash_self, hash_other)

\* C20: when both records have a tmdb_id they are equal exactly when the
\* tmdb_ids are, whatever their imdb_ids, titles and years; when they do not
\* both have a tmdb_id and both have an imdb_id, they are equal exactly when
\* the imdb_ids are, whatever their titles and years.
C20_IdPriority ==
    /\ (Compared /\ BothTmdbIds) =>
         (eq_result <=> eq_self.tmdb_id = eq_other.tmdb_id)
    /\ (Compared /\ ~BothTmdbIds /\ BothImdbIds) =>
         (eq_result <=> eq_self.imdb_id = eq_other.imdb_id)

\* the tmdb_ids differ and the records are unequal, with the same imdb_id,
\* title and year
C20_Witness ==
    /\ Compared /\ BothTmdbIds /\ BothImdbIds
    /\ eq_self.tmdb_id # eq_other.tmdb_id
    /\ eq_self.imdb_id = eq_other.imdb_id
    /\ eq_self.title = eq_other.title /\ eq_self.year = eq_other.year
    /\ ~eq_result


(***************************************************************************)
(* Properties of WatchEntry.convert_rating_10_to_5                         *)
(***************************************************************************)
\* the float x is the integer n
IsInteger(x, n) == x.num = n * x.den
\* x <= y and x = y as numbers
FracLeq(x, y) == x.num * y.den <= y.num * x.den
FracEq(x, y) == x.num * y.den = y.num * x.den
\* the two ratings converted are integers of 1..10
IntegerRatings ==
    /\ rt_pc = "done"
    /\ \E n \in 1..10 : IsInteger(rt_a, n)
    /\ \E n \in 1..10 : IsInteger(rt_b, n)

\* C22: for every integer rating n of 1..10, convert_rating_10_to_5(n) is
\* n / 2, a multiple of 0.5 from 0.5 to 5.0 (3.5 for 7, 5.0 for 10, 0.5 for
\* 1), and a greater n never gives a smaller result.
C22_RatingConversion ==
    IntegerRatings =>
        /\ FracEq(rt_ra, Halve(rt_a))
        /\ \E k \in 1..10 : FracEq(rt_ra, [num |-> k, den |-> 2])
        /\ FracLeq(rt_a, rt_b) => FracLeq(rt_ra, rt_rb)
        /\ IsInteger(rt_a, 7) => FracEq(rt_ra, [num |-> 35, den |-> 10])
        /\ IsInteger(rt_a, 10) => FracEq(rt_ra, [num |-> 5, den |-> 1])
        /\ IsInteger(rt_a, 1) => FracEq(rt_ra, [num |-> 5, den |-> 10])

\* 7 gave 3.5 and 10 gave 5.0
C22_Witness ==
    /\ IntegerRatings
    /\ IsInteger(rt_a, 7) /\ rt_ra = [num |-> 7, den |-> 2]
    /\ IsInteger(rt_b, 10) /\ rt_rb = [num |-> 10, den |-> 2]

(***************************************************************************)
(* Movie equality as an equivalence                                        *)
(***************************************************************************)
\* C30: == on Movie objects is reflexive, symmetric and transitive: a == a;
\* a == b exactly when b == a; a == b and b == c give a == c, also when b has
\* no id and a and c have different tmdb_ids but the title and year of b.
C30_Equivalence ==
    tr_pc = "compared" =>
        /\ tr_eq.aa
        /\ tr_eq.ab = tr_eq.ba
        /\ (tr_eq.ab /\ tr_eq.bc) => tr_eq.ac

(***************************************************************************)
(* Properties of the exporter                                              *)
(***************************************************************************)
\* the entry holds an id: a tmdb_id other than None and 0 or an imdb_id
\* other than None and the empty string
WithId(entry) ==
    \/ entry.movie.tmdb_id \notin {None, Val(0)}
    \/ entry.movie.imdb_id \notin {None, Val("")}
WithoutId(entry) == ~WithId(entry)
\* the rows of a file, none when the file was not written
RowsOf(file) == IF file = Absent THEN <<>> ELSE file[3]
\* the row of the main CSV names an id
RowNamesId(row) == row.imdbID # "" \/ row.tmdbID # <<>>

\* C21: when export_watched or export_watchlist has returned, the main CSV
\* holds the rows of exactly the entries with an id and the not-found report
\* the rows of exactly the entries with neither id, each in the order of the
\* list given: every entry is in one output and one only.
C21_ExportRouting ==
    ex_pc = "done" =>
        /\ ex_main # Absent
        /\ ex_main = MainFile(ex_kind, SelectSeq(ex_entries, WithId))
        /\ RowsOf(ex_report) =
               RowsOf(_export_not_found(ex_kind, SelectSeq(ex_entries, WithoutId)))
        /\ \A i \in DOMAIN RowsOf(ex_main) : RowNamesId(RowsOf(ex_main)[i])
        /\ Len(RowsOf(ex_main)) + Len(RowsOf(ex_report)) = Len(ex_entries)

\* three entries: one with an imdb_id alone between two with no id
C21_Witness ==
    /\ ex_pc = "done"
    /\ Len(ex_entries) = 3
    /\ WithoutId(ex_entries[1]) /\ WithoutId(ex_entries[3])
    /\ ex_entries[1] # ex_entries[3]
    /\ ~TruthyInt(ex_entries[2].movie.tmdb_id) /\ WithId(ex_entries[2])
    /\ Len(RowsOf(ex_main)) = 1
    /\ Len(RowsOf(ex_report)) = 2

(***************************************************************************)
(* Properties of SyncService.sync                                          *)
(***************************************************************************)
\* the call is in the body of sync: the connection test, the fetches, the two
\* loops, the final write of the status row
InBody(c) == sy_pc[c] \in {"L91", "L95", "L104", "L135", "L161", "L177"}
\* no call of sync is under way
Quiet == \A c \in Calls : sy_pc[c] \in {"ready", "returned"}
\* the call has returned a result or raised
Ended(c) == sy_pc[c] = "returned"

\* C23: whatever the interleaving of the calls of sync, at most one of them
\* is in the body of sync at any time.
C23_MutualExclusion ==
    \A c, d \in Calls : c # d => ~(InBody(c) /\ InBody(d))

\* the step is one of call c on its way to the return of line 82, or after it
StepOfSkipped(c) ==
    /\ sy_pc'[c] # sy_pc[c]
    /\ sy_pc'[c] = "L81" \/ sy_pc[c] = "L81" \/ sy_result[c] = "skipped"
\* C24: a call of sync that finds a sync in progress saw _is_syncing true and
\* writes nothing: none of its steps changes _is_syncing, the status row, the
\* movies table or the callbacks invoked, and when it has returned "skipped"
\* it has fetched nothing, asked the catalog nothing, upserted nothing, called
\* no callback and written no column of the status row.
C24_SkipFrame ==
    /\ [](\A c \in Calls :
            sy_result[c] = "skipped" => sy_did[c] = {} /\ sy_keys[c] = {})
    /\ [][\A c \in Calls :
            StepOfSkipped(c) =>
                /\ sy_pc'[c] = "L81" => _is_syncing
                /\ _is_syncing' = _is_syncing
                /\ db_status' = db_status
                /\ db_movies' = db_movies
                /\ callbacks' = callbacks]_vars

\* a call has returned "skipped" while the call it found in progress is past
\* its first upsert, still in the body, the flag still set
C24_Witness ==
    \E c, d \in Calls :
        /\ Ended(c) /\ sy_result[c] = "skipped"
        /\ InBody(d) /\ "upsert" \in sy_did[d]
        /\ _is_syncing
        /\ db_status.status = "syncing"

\* C25: once the calls of sync have all ended, one of them not skipped,
\* _is_syncing is false; and when none of them raised, the status row is not
\* left at "syncing": it is "idle" with no error_message or "error" with one.
C25_FlagReleased ==
    (Quiet /\ \E c \in Calls : sy_result[c] \notin {"", "skipped"}) =>
        /\ _is_syncing = FALSE
        /\ (\A c \in Calls : sy_result[c] # "raised") =>
              \/ db_status.status = "idle" /\ db_status.error_message = None
              \/ db_status.status = "error" /\ db_status.error_message # None

\* C26: a call of sync whose test_connection() answered false fetches no
\* list, asks the catalog nothing, upserts no movie, invokes no callback and
\* writes no column of the status row but status and error_message; when it
\* has returned, its result is "error", and when no other call has run, the
\* movies table and the callbacks are as they were and the status row is
\* "error" with last_sync, movies_count and watchlist_count as they were.
C26_FailedConnection ==
    \A c \in Calls :
        sy_conn[c] = "down" =>
            /\ sy_did[c] = {}
            /\ sy_keys[c] \subseteq {"status", "error_message"}
            /\ (Ended(c) /\ sy_result[c] # "raised") =>
                  /\ sy_result[c] = "error"
                  /\ sy_keys[c] = {"status", "error_message"}
                  /\ (\A d \in Calls \ {c} : sy_pc[d] = "ready") =>
                        /\ db_movies = <<>>
                        /\ callbacks = <<>>
                        /\ db_status.status = "error"
                        /\ db_status.error_message = Val("Failed to connect to source")
                        /\ db_status.last_sync = SyncStatusDefault.last_sync
                        /\ db_status.movies_count = SyncStatusDefault.movies_count
                        /\ db_status.watchlist_count = SyncStatusDefault.watchlist_count

\* the only call made found the source down and returned "error", with lists
\* to fetch and a callback to call
C26_Witness ==
    \E c \in Calls :
        /\ sy_conn[c] = "down" /\ Ended(c) /\ sy_result[c] = "error"
        /\ \A d \in Calls \ {c} : sy_pc[d] = "ready"
        /\ src_watched # <<>> /\ src_watchlist # <<>>
        /\ on_sync_complete # None
        /\ db_status.status = "error"
        /\ ~_is_syncing

\* the two rows are of one source movie
SameSourceMovie(r1, r2) ==
    r1.title = r2.title /\ r1.tmdb_id = r2.tmdb_id /\ r1.imdb_id = r2.imdb_id
\* every call of sync made so far has returned "success"
AllSucceeded ==
    /\ Quiet
    /\ \A c \in Calls : sy_result[c] \in {"", "success"}
    /\ \E c \in Calls : sy_result[c] = "success"

\* C27: after any number of successful syncs of the same lists, the movies
\* table holds no two rows of one source movie.
C27_NoDuplicates ==
    AllSucceeded =>
        \A i, j \in DOMAIN db_movies :
            i # j => ~SameSourceMovie(db_movies[i], db_movies[j])

\* the row holds an id of the data
SharesId(row, movie_data) ==
    \/ movie_data.tmdb_id # None /\ row.tmdb_id = movie_data.tmdb_id
    \/ movie_data.imdb_id # None /\ row.imdb_id = movie_data.imdb_id

\* C28: whenever upsert_movie attempts an insert, no stored row holds the
\* tmdb_id or the imdb_id of the data.
C28_NoConflictingInsert ==
    [][(db_last'.n # db_last.n /\ db_last'.op = "insert") =>
          \A i \in DOMAIN db_movies : ~SharesId(db_movies[i], db_last'.data)]_vars

\* the row is the one that stores the movie
Stores(row, m) ==
    \/ SharesId(row, m)
    \/ /\ m.tmdb_id = None /\ m.imdb_id = None
       /\ row.tmdb_id = None /\ row.imdb_id = None
       /\ row.title = m.title
\* one call of sync has run, alone, and returned "success"
OneSucceeded ==
    \E c \in Calls :
        /\ Ended(c) /\ sy_result[c] = "success"
        /\ \A d \in Calls \ {c} : sy_pc[d] = "ready"

\* C29: after a successful sync every movie of the watched list is stored
\* with is_watched true and every movie of the watchlist with is_watchlist
\* true, a movie of both lists included.
C29_FlagsKept ==
    OneSucceeded =>
        /\ \A i \in DOMAIN src_watched :
              \E k \in DOMAIN db_movies :
                  Stores(db_movies[k], src_watched[i]) /\ db_movies[k].is_watched
        /\ \A i \in DOMAIN src_watchlist :
              \E k \in DOMAIN db_movies :
                  Stores(db_movies[k], src_watchlist[i]) /\ db_movies[k].is_watchlist

====
